---- MODULE Spec2Model ----
(***************************************************************************)
(* vizible-cartesian: the Cartesian plane (validation, scale derivation),  *)
(* the chart variants' renderSeries and the Line/Time cursor, as a state   *)
(* machine over the caller's render target (an SVG subtree).               *)
(*                                                                         *)
(* The chart calls into d3: selection.selectAll/data/join/attr/remove,     *)
(* transition().duration().attr, scaleLinear/scaleTime and nice().  Those  *)
(* calls are modelled by what d3 7.9 does with them: selectAll matches     *)
(* descendants by class token / attribute, data() joins by index, join()   *)
(* appends entering nodes to the selection's parent and removes exiting    *)
(* ones, a transition changes attributes on a later timer frame.           *)
(***************************************************************************)
EXTENDS Integers, Sequences, FiniteSets, TLC

VARIABLES
    args,       \* the constructor's arguments (kind, dataset, seriesConfig, options)
    phase,      \* "new" | "constructed" | "thrown"
    trace,      \* the constructor's stages reached, in order
    dataset,    \* CartesianPlane.#dataset
    ySeries,    \* CartesianPlane.#ySeries (and the variants' own #ySeries copy)
    options,    \* CartesianPlane.#options
    xScale,     \* CartesianPlane.#xScale
    yScale,     \* CartesianPlane.#yScale
    dom,        \* the render target's subtree in document order, the svg first
    listeners,  \* the "mousemove" listeners attached to the render target
    renders,    \* renderSeries() calls made so far
    handled,    \* the record the most recent handled pointer event selected (0: none)
    targetSize, \* the render target's measured size (getBoundingClientRect) now
    caller,     \* the array the caller passed as dataset, as record identities
    edits,      \* changes the caller made to records, array or target size so far
    decorations,\* axis, grid, legend, title and label calls made so far
    recent,     \* per decoration method, the argument of its most recent call
    rendered,   \* the records as the most recent renderSeries() call read them
    last        \* the operation that ran last, with its input

vars == <<args, phase, trace, dataset, ySeries, options, xScale, yScale,
          dom, listeners, renders, handled, targetSize, caller, edits, decorations, recent, rendered, last>>

-----------------------------------------------------------------------------
(* Bounds of the model *)

MaxRecords == 2
MaxSeries == 2
MaxCalls == 2

(* Program constants *)

DefaultMargin == 30
DefaultRadii == 4
CursorRadius == 4

DefaultColor == "steelblue"

(* A number that is undefined / NaN in the program: d3's scale(x) returns  *)
(* undefined for x == null or NaN, a missing record field is undefined.    *)
Undef == -1

(* The render target's measured size (getBoundingClientRect) at construction *)
SvgSize == [width |-> 180, height |-> 180]

-----------------------------------------------------------------------------
(* Values a record field can hold *)

Null == [t |-> "null", v |-> 0]
Undefined == [t |-> "undefined", v |-> 0]
Num(n) == [t |-> "num", v |-> n]
Date(n) == [t |-> "date", v |-> n]
Str(n) == [t |-> "str", v |-> n]
NaN == [t |-> "nan", v |-> 0]

IsNullish(val) == val.t \in {"null", "undefined"}

(* JavaScript's Number(v) / unary plus on a field value; Undef stands for NaN: *)
(* a Date converts to its timestamp, null to 0, undefined and a non-numeric    *)
(* string to NaN.                                                              *)
ToNumber(val) ==
    CASE val.t = "num" -> val.v
      [] val.t = "date" -> val.v
      [] val.t = "null" -> 0
      [] OTHER -> Undef

-----------------------------------------------------------------------------
(* d3 scales *)

(* Rounding to the nearest multiple instead of down *)
Nearest(a, b) == (2 * a + b) \div (2 * b)

Floor(a, b) == a \div b
Ceil(a, b) == -((-a) \div b)

(* tickIncrement(start, stop, 10) for an integer span, when it is >= 1 *)
TickIncrement(span) ==
    IF span < 15 THEN 1
    ELSE IF span < 32 THEN 2
    ELSE IF span < 71 THEN 5
    ELSE IF span < 142 THEN 10
    ELSE IF span < 317 THEN 20
    ELSE 50

RECURSIVE NiceIter(_, _, _, _)
NiceIter(d, start, stop, prestep) ==
    IF stop = start THEN d
    ELSE LET step == TickIncrement(stop - start)
         IN IF step = prestep THEN <<start, stop>>
            ELSE NiceIter(d, Floor(start, step) * step, Ceil(stop, step) * step, step)

(* continuous.nice(): the domain <<d0, d1>> (d0 <= d1) widened to tick steps *)
Nice(d) ==
    IF d[1] = Undef \/ d[2] = Undef THEN d
    ELSE NiceIter(d, d[1], d[2], 0)

(* scale(value): linear interpolation of the domain onto the range *)
ScaleApply(s, val) ==
    LET n == ToNumber(val)
    IN IF IsNullish(val) \/ n = Undef \/ s.d0 = Undef THEN Undef
       ELSE IF s.d1 = s.d0 THEN s.r0 + (s.r1 - s.r0) \div 2
       ELSE s.r0 + ((n - s.d0) * (s.r1 - s.r0)) \div (s.d1 - s.d0)

NoScale == [kind |-> "none", d0 |-> 0, d1 |-> 0, r0 |-> 0, r1 |-> 0]

MinOf(S) == CHOOSE m \in S : \A n \in S : m <= n
MaxOf(S) == CHOOSE m \in S : \A n \in S : m >= n


SeqsUpTo(S, lo, hi) == UNION {[1..k -> S] : k \in lo..hi}

-----------------------------------------------------------------------------
(* Constructor arguments *)

Kinds == {"Line", "Time", "Scatter", "CustomScatter"}
IsLineKind(k) == k \in {"Line", "Time"}

Absent == "(absent)"

Rec(x, y1, y2, radii) == [x |-> x, y1 |-> y1, y2 |-> y2, radii |-> radii]

(* Records of the rendering runs: x is a number (a Date for a Time chart)  *)
(* or missing; the y fields differ between records and between fields.     *)
XVal(kind, n) == IF kind = "Time" THEN Date(n) ELSE Num(n)
RenderRecords(kind) ==
    { Rec(Null, Num(1), Num(3), Undefined),
      Rec(XVal(kind, 0), Num(0), Num(4), Num(6)),
      Rec(XVal(kind, 4), Num(4), Num(0), Undefined) }

Serie(field, label, color, radii, icon, size) ==
    [field |-> field, label |-> label, color |-> color, radii |-> radii,
     icon |-> icon, size |-> size]

(* y descriptors: two with the same label, one with every optional key omitted *)
SeriesUniverse ==
    { Serie("y1", "A", "red", 5, Absent, Undef),
      Serie("y2", "A", Absent, Undef, "M0,0L2,2", 2),
      Serie("y2", "B", "blue", Undef, Absent, Undef) }

OptionsUniverse ==
    { [isChartStatic |-> s, transitionTime |-> t] : s \in BOOLEAN, t \in {Undef, 600} }

Args(kind, dsArg, records, xs, ysArg, series, opts) ==
    [kind |-> kind, datasetArg |-> dsArg, records |-> records, xSerie |-> xs,
     ySeriesArg |-> ysArg, series |-> series, options |-> opts]

(* Lists of different descriptors *)
SeriesLists ==
    {s \in SeqsUpTo(SeriesUniverse, 1, MaxSeries) :
        \A i, j \in 1..Len(s) : i # j => s[i] # s[j]}

RenderArgs ==
    UNION { { Args(k, "array", r, "ok", "array", s, o) :
                r \in SeqsUpTo(RenderRecords(k), 1, MaxRecords),
                s \in SeriesLists, o \in OptionsUniverse } :
            k \in Kinds }

(* Arguments of the construction runs: every way the dataset and the series *)
(* configuration can be missing or malformed, x values of every type.       *)
CtorXValues == {Null, Undefined, Num(3), Num(17), Date(5), Date(40), Str(1)}
CtorRecords == { Rec(x, Num(1), Num(2), Undefined) : x \in CtorXValues }

CtorArgs ==
    { Args(k, da, r, xs, ya, s, [isChartStatic |-> FALSE, transitionTime |-> Undef]) :
        k \in Kinds, da \in {"array", "notArray", "missing"},
        r \in SeqsUpTo(CtorRecords, 0, MaxRecords),
        xs \in {"ok", "noField", "missing"}, ya \in {"array", "notArray", "missing"},
        s \in SeqsUpTo({Serie("y1", "A", Absent, Undef, Absent, Undef)}, 0, 1) }

(* Arguments of the scale runs: valid arguments whose y values are numbers, *)
(* null, undefined, NaN or non-numeric strings, on targets of several sizes. *)
ScaleXValues == {Null, Num(3), Num(40)}
ScaleYValues == {Null, Undefined, NaN, Str(1), Num(2), Num(50)}
ScaleRecords == { Rec(x, y, Num(5), Undefined) : x \in ScaleXValues, y \in ScaleYValues }
ScaleSeriesLists ==
    { <<Serie("y1", "A", "red", 5, Absent, Undef)>>,
      <<Serie("y1", "A", "red", 5, Absent, Undef), Serie("y2", "B", "blue", Undef, Absent, Undef)>> }
ScaleSizes == { SvgSize, [width |-> 300, height |-> 240], [width |-> 40, height |-> 40] }

ScaleArgs ==
    { Args(k, "array", r, "ok", "array", s, [isChartStatic |-> FALSE, transitionTime |-> Undef]) :
        k \in {"Line", "Scatter"}, r \in SeqsUpTo(ScaleRecords, 1, MaxRecords),
        s \in ScaleSeriesLists }

-----------------------------------------------------------------------------
(* The render target: a sequence of nodes in document order; dom[1] is the *)
(* svg element, a node's children follow it with depth + 1.                *)

NumAttrs == {"cx", "cy", "r", "x1", "y1", "x2", "y2",
             "stroke-dasharray", "stroke-dashoffset", "tx", "ty", "scale",
             "x", "y", "width", "height"}
StrAttrs == {"fill", "stroke", "style.stroke", "text", "transform", "dy"}

NoPath == [kind |-> "none", pts |-> <<>>, icon |-> Absent, radius |-> Undef]

Node(tag, depth) ==
    [tag |-> tag, depth |-> depth, cls |-> {}, label |-> Absent,
     num |-> [a \in NumAttrs |-> Undef], str |-> [a \in StrAttrs |-> Absent],
     d |-> NoPath, trans |-> <<>>]

SubtreeEnd(t, i) ==
    LET later == {j \in (i + 1)..Len(t) : t[j].depth <= t[i].depth}
    IN IF later = {} THEN Len(t) ELSE MinOf(later) - 1

Descendants(t, i) == (i + 1)..SubtreeEnd(t, i)

(* selection.selectAll(selector) below node i: its descendants among the   *)
(* nodes matching the selector, in document order                          *)
SelectAll(t, i, matching) ==
    SelectSeq([k \in 1..(SubtreeEnd(t, i) - i) |-> i + k], LAMBDA j : j \in matching)

(* selection.remove() of the nodes X, each with its subtree *)
RemoveNodes(t, X) ==
    LET gone == UNION {j..SubtreeEnd(t, j) : j \in X}
        keep == SelectSeq([k \in 1..Len(t) |-> k], LAMBDA j : j \notin gone)
    IN [k \in 1..Len(keep) |-> t[keep[k]]]

(* parent.appendChild for each of the nodes, in order *)
AppendChildren(t, p, nodes) ==
    LET e == SubtreeEnd(t, p)
    IN SubSeq(t, 1, e)
       \o [k \in 1..Len(nodes) |-> [nodes[k] EXCEPT !.depth = t[p].depth + 1]]
       \o SubSeq(t, e + 1, Len(t))

(* selectAll(..).data(array of m items).join(..): a join by index.  The first *)
(* min(n, m) selected nodes are the update selection, the data beyond them    *)
(* enter as new children of the selection's parent p, the nodes beyond the    *)
(* data exit and are removed.                                                 *)
Updating(sel, m) == 1..(IF Len(sel) < m THEN Len(sel) ELSE m)
Entering(sel, m) == 1..(m - Len(sel))

(* updated[k] is what the update branch makes of the node sel[k], entered[k]  *)
(* the node the enter branch creates for the datum Len(sel) + k               *)
Join(t, p, sel, m, updated, entered) ==
    LET n == Len(sel)
        upd == [j \in 1..Len(t) |->
                  IF \E k \in Updating(sel, m) : sel[k] = j
                  THEN updated[CHOOSE k \in Updating(sel, m) : sel[k] = j]
                  ELSE t[j]]
    IN IF m >= n
       THEN AppendChildren(upd, p, entered)
       ELSE RemoveNodes(upd, {sel[k] : k \in (m + 1)..n})

(* The joined (entered and updated) nodes, by datum index, after Join *)
Joined(t, p, sel, m) ==
    [k \in 1..m |-> IF k <= Len(sel) THEN sel[k] ELSE SubtreeEnd(t, p) + (k - Len(sel))]

HasClass(n, c) == c \in n.cls

-----------------------------------------------------------------------------
(* CartesianPlane: validation and scale derivation *)

XOf(rec) == rec.x
FieldOf(serie, rec) == rec[serie.field]

(* getXDomain deciding by the first record's x, null and undefined not filtered *)
GetXDomainUnfiltered(records) ==
    LET values == [i \in 1..Len(records) |-> XOf(records[i])]
        nums == {ToNumber(values[i]) : i \in 1..Len(values)} \ {Undef}
    IN IF Len(values) = 0 \/ values[1].t \notin {"date", "num"}
       THEN [thrown |-> TRUE, kind |-> "none", min |-> Undef, max |-> Undef]
       ELSE [thrown |-> FALSE, kind |-> IF values[1].t = "date" THEN "time" ELSE "linear",
             min |-> MinOf(nums), max |-> MaxOf(nums)]

(* getXDomain(dataset, xAccessor) *)
GetXDomain(records) ==
    LET values == SelectSeq([i \in 1..Len(records) |-> XOf(records[i])],
                            LAMBDA v : ~IsNullish(v))
        nums == {ToNumber(values[i]) : i \in 1..Len(values)}
    IN IF Len(values) = 0
       THEN [thrown |-> TRUE, kind |-> "none", min |-> Undef, max |-> Undef]
       ELSE IF values[1].t = "date"
       THEN IF \E i \in 1..Len(values) : values[i].t # "date"
            THEN \* (v as Date).getTime() on a value that is no Date: TypeError
                 [thrown |-> TRUE, kind |-> "none", min |-> Undef, max |-> Undef]
            ELSE [thrown |-> FALSE, kind |-> "time", min |-> MinOf(nums), max |-> MaxOf(nums)]
       ELSE IF values[1].t = "num"
       THEN IF Undef \in nums
            THEN \* Math.min / Math.max over a NaN
                 [thrown |-> FALSE, kind |-> "linear", min |-> Undef, max |-> Undef]
            ELSE [thrown |-> FALSE, kind |-> "linear", min |-> MinOf(nums), max |-> MaxOf(nums)]
       ELSE [thrown |-> TRUE, kind |-> "none", min |-> Undef, max |-> Undef]

(* getYDomain(dataset, series) *)
GetYDomain(records, series) ==
    LET values == {ToNumber(FieldOf(series[j], records[i])) :
                     i \in 1..Len(records), j \in 1..Len(series)} \ {Undef}
    IN IF values = {} THEN <<Undef, Undef>> ELSE <<MinOf(values), MaxOf(values)>>

(* d3.scaleLinear()/scaleTime().domain(d).range(<<r0, r1>>).nice() *)
MakeScale(kind, d, r0, r1) ==
    [kind |-> kind, d0 |-> Nice(d)[1], d1 |-> Nice(d)[2], r0 |-> r0, r1 |-> r1]

(* The y range with the top margin first *)
YRangeUpright(sz, m) == <<m, sz.height - m>>

(* .range([m.left, w - m.right]) and .range([h - m.bottom, m.top]) *)
XRange(sz, m) == <<m, sz.width - m>>
YRange(sz, m) == <<sz.height - m, m>>

(* dataset?.length && Array.isArray(dataset) *)
ValidDataset(a) == a.datasetArg = "array" /\ Len(a.records) > 0

(* The series check without ySeries?.length *)
ValidSeriesConfigAnyLength(a) == a.xSerie = "ok" /\ a.ySeriesArg = "array"

(* seriesConfig?.xSerie?.field, and ySeries?.length && Array.isArray(ySeries) *)
ValidSeriesConfig(a) ==
    a.xSerie = "ok" /\ a.ySeriesArg = "array" /\ Len(a.series) > 0

(* An options object that keeps the caller's transitionTime as well *)
StoredOptionsWithTransitionTime(o) ==
    [margin |-> DefaultMargin, isCurved |-> FALSE, isChartStatic |-> o.isChartStatic,
     transitionTime |-> o.transitionTime]

(* The options object the constructor stores in #options *)
StoredOptions(o) ==
    [margin |-> DefaultMargin, isCurved |-> FALSE, isChartStatic |-> o.isChartStatic,
     transitionTime |-> Undef]

NoOptions ==
    [margin |-> DefaultMargin, isCurved |-> FALSE, isChartStatic |-> FALSE,
     transitionTime |-> Undef]

(* The class the variant's constructor sets on the render target *)
ChartClass(kind) ==
    CASE IsLineKind(kind) -> "line-chart"
      [] kind = "Scatter" -> "scatter-chart"
      [] OTHER -> "custom-scatter-chart"

(* The class set on the target before the arguments are looked at *)
ClassedTargetFirst(t, kind, ok) == [t EXCEPT ![1].cls = {ChartClass(kind)}]

(* The class added to the target's classes, as classed(name, true) *)
ClassedTargetAdding(t, kind, ok) ==
    IF ok THEN [t EXCEPT ![1].cls = @ \cup {ChartClass(kind)}] ELSE t

(* this._svgSelection.attr("class", ...) after super(...) has returned: the *)
(* class attribute replaced, nothing else on the target touched             *)
ClassedTarget(t, kind, ok) == IF ok THEN [t EXCEPT ![1].cls = {ChartClass(kind)}] ELSE t

Op(name) == [op |-> name, mx |-> 0, my |-> 0, sel |-> 0]

(* What the caller changes after construction, and what the decoration   *)
(* methods have been called with: left alone by the other operations      *)
callerVars == <<targetSize, caller, edits>>
decorationVars == <<decorations, recent>>

DecorationMethods ==
    {"renderXAxis", "renderYAxis", "renderXGridLines", "renderYGridLines", "renderLegend",
     "renderChartTitle", "renderXAxisLabel", "renderYAxisLabel"}

NeverCalled == "(never)"

EmptyTarget == <<[Node("svg", 0) EXCEPT !.cls = {"caller"}]>>

(* The state before construction: arguments from A, a render target from *)
(* Targets measuring one of Sizes                                        *)
InitOf(A, Sizes, Targets) ==
    /\ args \in A
    /\ targetSize \in Sizes
    /\ dom \in Targets
    /\ caller = [i \in 1..Len(args.records) |-> i]
    /\ edits = 0
    /\ decorations = 0
    /\ recent = [m \in DecorationMethods |-> NeverCalled]
    /\ rendered = <<>>
    /\ phase = "new"
    /\ trace = <<>>
    /\ dataset = <<>>
    /\ ySeries = <<>>
    /\ options = NoOptions
    /\ xScale = NoScale
    /\ yScale = NoScale
    /\ listeners = 0
    /\ renders = 0
    /\ handled = 0
    /\ last = Op("none")

InitWith(A) == InitOf(A, {SvgSize}, {EmptyTarget})
Init == InitWith(RenderArgs)
InitCtor == InitWith(CtorArgs)

(* new LineChart / TimeChart / ScatterChart / CustomScatterChart(...) *)
Construct ==
    /\ phase = "new"
    /\ LET xd == GetXDomain(args.records)
           m == DefaultMargin
           ok == ValidDataset(args) /\ ValidSeriesConfig(args) /\ ~xd.thrown
       IN /\ phase' = IF ok THEN "constructed" ELSE "thrown"
          /\ trace' = IF ~ValidDataset(args) THEN <<"dataset">>
                      ELSE IF ~ValidSeriesConfig(args) THEN <<"dataset", "seriesConfig">>
                      ELSE IF xd.thrown
                      THEN <<"dataset", "seriesConfig", "fields", "size", "getXDomain">>
                      ELSE <<"dataset", "seriesConfig", "fields", "size", "getXDomain",
                             "xScale", "getYDomain", "yScale", "class">>
          /\ dataset' = IF ok THEN args.records ELSE dataset
          /\ ySeries' = IF ok THEN args.series ELSE ySeries
          /\ options' = IF ok THEN StoredOptions(args.options) ELSE options
          /\ xScale' = IF ok
                       THEN MakeScale(xd.kind, <<xd.min, xd.max>>,
                                      XRange(targetSize, m)[1], XRange(targetSize, m)[2])
                       ELSE xScale
          /\ yScale' = IF ok
                       THEN MakeScale("linear", GetYDomain(args.records, args.series),
                                      YRange(targetSize, m)[1], YRange(targetSize, m)[2])
                       ELSE yScale
          /\ dom' = ClassedTarget(dom, args.kind, ok)
    /\ last' = Op("construct")
    /\ UNCHANGED <<args, listeners, renders, handled, rendered, callerVars, decorationVars>>

(* The scales derived again from the records and the target's size as they *)
(* are now                                                                  *)
RederiveScales ==
    LET xd == GetXDomain(dataset)
        m == options.margin
    IN /\ xScale' = MakeScale(xd.kind, <<xd.min, xd.max>>,
                              XRange(targetSize, m)[1], XRange(targetSize, m)[2])
       /\ yScale' = MakeScale("linear", GetYDomain(dataset, ySeries),
                              YRange(targetSize, m)[1], YRange(targetSize, m)[2])

(* #xScale and #yScale are assigned by the constructor only: the getters   *)
(* _xScale and _yScale hand out the scales built there                     *)
KeepScales == UNCHANGED <<xScale, yScale>>

-----------------------------------------------------------------------------
(* Attribute helpers *)

SetNum(n, a, v) == [n EXCEPT !.num[a] = v]
SetStr(n, a, v) == [n EXCEPT !.str[a] = v]

(* color ?? "steelblue", and the default parameter pointColor = "steelblue" *)
ColorOf(serie) == IF serie.color = Absent THEN DefaultColor ELSE serie.color

(* selection.transition().duration(dur) with the attributes it will set *)
Transition(dur, numT, strT, dT) ==
    [dur |-> dur, state |-> "scheduled", num |-> numT, str |-> strT, d |-> dT]

Schedule(n, tr) == [n EXCEPT !.trans = Append(@, tr)]

(* !isChartStatic && transitionTime ? transitionTime : 0 *)
TransitionTime ==
    IF ~options.isChartStatic /\ options.transitionTime # Undef /\ options.transitionTime # 0
    THEN options.transitionTime
    ELSE 0

(* .selectAll(".series").data([null]).join("g").attr("class", "series") *)
IsSeries(n) == HasClass(n, "series")
SeriesSelection(t) == SelectAll(t, 1, {j \in 1..Len(t) : IsSeries(t[j])})
SeriesRoot(t) ==
    LET sel == SeriesSelection(t)
    IN Join(t, 1, sel, 1,
            [k \in Updating(sel, 1) |-> [t[sel[k]] EXCEPT !.cls = {"series"}]],
            [k \in Entering(sel, 1) |-> [Node("g", 1) EXCEPT !.cls = {"series"}]])
SeriesRootAt(t) == Joined(t, 1, SeriesSelection(t), 1)[1]

(* .selectAll(".series-group").data(labels).join("g")                      *)
(*    .attr("class", "series-group").attr("data-label", label)             *)
IsSeriesGroup(n) == HasClass(n, "series-group")
SeriesGroupSelection(t, sg) == SelectAll(t, sg, {j \in 1..Len(t) : IsSeriesGroup(t[j])})
SeriesGroup(n, serie) == [n EXCEPT !.cls = {"series-group"}, !.label = serie.label]
SeriesGroups(t, sg) ==
    LET sel == SeriesGroupSelection(t, sg)
        m == Len(ySeries)
    IN Join(t, sg, sel, m,
            [k \in Updating(sel, m) |-> SeriesGroup(t[sel[k]], ySeries[k])],
            [k \in Entering(sel, m) |-> SeriesGroup(Node("g", 0), ySeries[Len(sel) + k])])
SeriesGroupsAt(t, sg) == Joined(t, sg, SeriesGroupSelection(t, sg), Len(ySeries))

-----------------------------------------------------------------------------
(* LineChart.renderSeries *)

Abs(a) == IF a < 0 THEN -a ELSE a

(* Coordinates for the records whose x maps to a number only *)
LineCoordinatesWhereDefined(serie) ==
    LET all == [i \in 1..Len(dataset) |->
                  <<ScaleApply(xScale, XOf(dataset[i])),
                    ScaleApply(yScale, FieldOf(serie, dataset[i]))>>]
    IN SelectSeq(all, LAMBDA c : c[1] # Undef)

(* The coordinates the line generator is given: one per record, in order *)
LineCoordinates(serie) ==
    [i \in 1..Len(dataset) |->
        <<ScaleApply(xScale, XOf(dataset[i])), ScaleApply(yScale, FieldOf(serie, dataset[i]))>>]

LinePath(serie) ==
    [kind |-> IF options.isCurved THEN "curve" ELSE "line",
     pts |-> LineCoordinates(serie), icon |-> Absent, radius |-> Undef]

(* path.getTotalLength(): 0 exactly when all points coincide; the length is *)
(* measured along the axes here                                             *)
RECURSIVE TotalLength(_)
TotalLength(pts) ==
    IF Len(pts) < 2 THEN 0
    ELSE Abs(pts[2][1] - pts[1][1]) + Abs(pts[2][2] - pts[1][2]) + TotalLength(Tail(pts))

IsSerie(n) == HasClass(n, "serie")

(* enter: append("path") ... .each(dash animation) *)
LineEnter(serie) ==
    LET path == LinePath(serie)
        len == TotalLength(path.pts)
        drawn == [Node("path", 0) EXCEPT
                    !.cls = {"serie"}, !.label = serie.label, !.d = path,
                    !.str["style.stroke"] = ColorOf(serie),
                    !.num["stroke-dasharray"] = len, !.num["stroke-dashoffset"] = len]
    IN Schedule(drawn, Transition(TransitionTime, [a \in {"stroke-dashoffset"} |-> 0], <<>>, <<>>))

(* update: clear the dash attributes, then transition stroke and d *)
LineUpdate(n, serie) ==
    Schedule([n EXCEPT !.num["stroke-dasharray"] = Undef, !.num["stroke-dashoffset"] = Undef],
             Transition(TransitionTime, <<>>, [a \in {"style.stroke"} |-> ColorOf(serie)],
                        <<LinePath(serie)>>))

(* group.selectAll(".serie").data([datum]).join(enter, update, exit) *)
LineSerie(t, g, serie) ==
    LET sel == SelectAll(t, g, {j \in 1..Len(t) : IsSerie(t[j])})
    IN Join(t, g, sel, 1,
            [k \in Updating(sel, 1) |-> LineUpdate(t[sel[k]], serie)],
            [k \in Entering(sel, 1) |-> LineEnter(serie)])

RECURSIVE LineSeries(_, _, _)
LineSeries(t, groups, k) ==
    IF k = 0 THEN t ELSE LineSeries(LineSerie(t, groups[k], ySeries[k]), groups, k - 1)

LineRenderSeries(t) ==
    LET t1 == SeriesRoot(t)
        sg == SeriesRootAt(t)
        t2 == SeriesGroups(t1, sg)
    IN LineSeries(t2, SeriesGroupsAt(t1, sg), Len(ySeries))

-----------------------------------------------------------------------------
(* ScatterChart.renderSeries *)

DefaultedRadii(serie) == IF serie.radii = Undef THEN DefaultRadii ELSE serie.radii

(* typeof d["radii"] === "number" ? d["radii"] : radii, NaN let through *)
RadiusOfAnyNumber(rec, radii) ==
    IF rec.radii.t = "num" THEN rec.radii.v ELSE IF rec.radii.t = "nan" THEN Undef ELSE radii

(* typeof d["radii"] === "number" && !isNaN(d["radii"]) ? d["radii"] : radii *)
RadiusOf(rec, radii) == IF rec.radii.t = "num" THEN rec.radii.v ELSE radii

(* The selector with the class misspelt: .scatter-points[data-label="<label>"] *)
IsScatterPointsOf(n, label) == HasClass(n, "scatter-points") /\ n.label = label

(* .scatter-point[data-label="<label>"] *)
IsScatterPointOf(n, label) == HasClass(n, "scatter-point") /\ n.label = label

ScatterEnter(serie, rec) ==
    LET drawn == [Node("circle", 0) EXCEPT
                    !.cls = {"scatter-point"}, !.label = serie.label,
                    !.str["fill"] = ColorOf(serie),
                    !.num["r"] = 0,
                    !.num["cx"] = ScaleApply(xScale, XOf(rec)),
                    !.num["cy"] = ScaleApply(yScale, FieldOf(serie, rec))]
    IN Schedule(drawn, Transition(TransitionTime,
                                  [a \in {"r"} |-> RadiusOf(rec, DefaultedRadii(serie))],
                                  <<>>, <<>>))

ScatterUpdate(n, serie, rec) ==
    Schedule(n, Transition(TransitionTime,
                           [a \in {"cx", "cy"} |->
                              IF a = "cx" THEN ScaleApply(xScale, XOf(rec))
                              ELSE ScaleApply(yScale, FieldOf(serie, rec))],
                           <<>>, <<>>))

(* #renderSerie(field, color, radii, label) *)
ScatterSerie(t, serie) ==
    LET t1 == SeriesRoot(t)
        sg == SeriesRootAt(t)
        sel == SelectAll(t1, sg, {j \in 1..Len(t1) : IsScatterPointOf(t1[j], serie.label)})
        m == Len(dataset)
    IN Join(t1, sg, sel, m,
            [k \in Updating(sel, m) |-> ScatterUpdate(t1[sel[k]], serie, dataset[k])],
            [k \in Entering(sel, m) |-> ScatterEnter(serie, dataset[Len(sel) + k])])

RECURSIVE ScatterSeries(_, _)
ScatterSeries(t, j) ==
    IF j > Len(ySeries) THEN t ELSE ScatterSeries(ScatterSerie(t, ySeries[j]), j + 1)

ScatterRenderSeries(t) == ScatterSeries(t, 1)

-----------------------------------------------------------------------------
(* CustomScatterChart.renderSeries *)

IsScatterPoint(n) == HasClass(n, "scatter-point")

(* size ?? 1: whatever number the descriptor gives *)
SizeOfAsGiven(serie) == IF serie.size # Undef THEN serie.size ELSE 1

(* typeof size === "number" && size > 0 ? size : 1 *)
SizeOf(serie) == IF serie.size # Undef /\ serie.size > 0 THEN serie.size ELSE 1

(* the icon string whenever the descriptor has one, the empty string included *)
IconPathOfAnyString(serie, rec) ==
    IF serie.icon # Absent
    THEN [kind |-> "icon", pts |-> <<>>, icon |-> serie.icon, radius |-> Undef]
    ELSE [kind |-> "circle", pts |-> <<>>, icon |-> Absent,
          radius |-> RadiusOf(rec, DefaultRadii)]

(* the icon string, or a circle path of the record's radius *)
IconPath(serie, rec) ==
    IF serie.icon # Absent /\ serie.icon # ""
    THEN [kind |-> "icon", pts |-> <<>>, icon |-> serie.icon, radius |-> Undef]
    ELSE [kind |-> "circle", pts |-> <<>>, icon |-> Absent,
          radius |-> RadiusOf(rec, DefaultRadii)]

CustomPoint(n, serie, rec) ==
    [n EXCEPT !.cls = {"scatter-point"}, !.label = serie.label,
              !.d = IconPath(serie, rec),
              !.str["fill"] = ColorOf(serie),
              !.num["tx"] = ScaleApply(xScale, XOf(rec)),
              !.num["ty"] = ScaleApply(yScale, FieldOf(serie, rec)),
              !.num["scale"] = SizeOf(serie)]

CustomSerie(t, g, serie) ==
    LET sel == SelectAll(t, g, {j \in 1..Len(t) : IsScatterPoint(t[j])})
        m == Len(dataset)
    IN Join(t, g, sel, m,
            [k \in Updating(sel, m) |-> CustomPoint(t[sel[k]], serie, dataset[k])],
            [k \in Entering(sel, m) |->
               CustomPoint(Node("path", 0), serie, dataset[Len(sel) + k])])

RECURSIVE CustomSeries(_, _, _)
CustomSeries(t, groups, k) ==
    IF k = 0 THEN t ELSE CustomSeries(CustomSerie(t, groups[k], ySeries[k]), groups, k - 1)

CustomRenderSeries(t) ==
    LET t1 == SeriesRoot(t)
        sg == SeriesRootAt(t)
        t2 == SeriesGroups(t1, sg)
    IN CustomSeries(t2, SeriesGroupsAt(t1, sg), Len(ySeries))

(* chart.renderSeries() *)
RenderSeries ==
    /\ phase = "constructed"
    /\ renders < MaxCalls
    /\ dom' = CASE IsLineKind(args.kind) -> LineRenderSeries(dom)
                [] args.kind = "Scatter" -> ScatterRenderSeries(dom)
                [] OTHER -> CustomRenderSeries(dom)
    /\ renders' = renders + 1
    /\ rendered' = dataset
    /\ last' = Op("renderSeries")
    /\ KeepScales
    /\ UNCHANGED <<args, phase, trace, dataset, ySeries, options,
                   listeners, handled, callerVars, decorationVars>>

-----------------------------------------------------------------------------
(* d3-transition: a timer frame *)

ApplyTransition(n, tr) ==
    [n EXCEPT !.num = [a \in NumAttrs |-> IF a \in DOMAIN tr.num THEN tr.num[a] ELSE @[a]],
              !.str = [a \in StrAttrs |-> IF a \in DOMAIN tr.str THEN tr.str[a] ELSE @[a]],
              !.d = IF tr.d = <<>> THEN @ ELSE tr.d[1]]

RECURSIVE ApplyAll(_, _)
ApplyAll(n, trs) ==
    IF trs = <<>> THEN n ELSE ApplyAll(ApplyTransition(n, Head(trs)), Tail(trs))

(* One frame of a node's transitions, oldest first.  A zero-duration        *)
(* transition starts and ends (t = 1) in the frame it is first scheduled    *)
(* in, so all of them apply in order.  With a duration, the running         *)
(* transition ends in this frame (complete) or not; a scheduled one, on     *)
(* starting, interrupts the running one where it is and cancels the older   *)
(* scheduled ones, so only the newest goes on, running.                     *)
NodeFrame(n, complete) ==
    IF n.trans = <<>> THEN n
    ELSE IF \A i \in 1..Len(n.trans) : n.trans[i].dur = 0
    THEN [ApplyAll(n, n.trans) EXCEPT !.trans = <<>>]
    ELSE LET running == {i \in 1..Len(n.trans) : n.trans[i].state = "running"}
             scheduled == {i \in 1..Len(n.trans) : n.trans[i].state = "scheduled"}
             ran == IF running # {} /\ complete
                    THEN ApplyTransition(n, n.trans[MinOf(running)])
                    ELSE n
         IN IF scheduled = {}
            THEN IF complete THEN [ran EXCEPT !.trans = <<>>] ELSE n
            ELSE [ran EXCEPT !.trans = <<[n.trans[Len(n.trans)] EXCEPT !.state = "running"]>>]

Pending(t) == {i \in 1..Len(t) : t[i].trans # <<>>}

(* The timer wakes: every pending transition gets its frame *)
TimerFlush ==
    /\ Pending(dom) # {}
    /\ \E complete \in BOOLEAN :
          dom' = [i \in 1..Len(dom) |-> NodeFrame(dom[i], complete)]
    /\ last' = Op("timer")
    /\ UNCHANGED <<args, phase, trace, dataset, ySeries, options, xScale, yScale,
                   listeners, renders, handled, rendered, callerVars, decorationVars>>

-----------------------------------------------------------------------------
(* LineChart cursor *)

(* The selector with the class misspelt: .cursor.points *)
IsCursorPoints(n) == HasClass(n, "cursor") /\ HasClass(n, "points")

IsCursor(n) == HasClass(n, "cursor")
IsCursorPoint(n) == HasClass(n, "cursor") /\ HasClass(n, "point")
IsVerticalLine(n) == HasClass(n, "cursor") /\ HasClass(n, "vertical-line")

(* Math.abs(xScale(x(d)) - mouseX); Undef stands for NaN *)
Distance(rec, mx) ==
    IF ScaleApply(xScale, XOf(rec)) = Undef THEN Undef
    ELSE Abs(ScaleApply(xScale, XOf(rec)) - mx)

(* a < b on numbers either of which may be NaN *)
Less(a, b) == a # Undef /\ b # Undef /\ a < b

(* this._dataset.reduce((closest, d) => ... ? d : closest, firstRow), as the *)
(* index of the record kept                                                 *)
RECURSIVE ClosestDatum(_, _, _)
ClosestDatum(closest, i, mx) ==
    IF i > Len(dataset) THEN closest
    ELSE ClosestDatum(IF Less(Distance(dataset[i], mx), Distance(dataset[closest], mx))
                      THEN i ELSE closest,
                      i + 1, mx)

CursorPoint(n, serie, rec) ==
    [n EXCEPT !.cls = {"cursor", "point"}, !.label = serie.label,
              !.num["cx"] = ScaleApply(xScale, XOf(rec)),
              !.num["cy"] = ScaleApply(yScale, FieldOf(serie, rec)),
              !.num["r"] = CursorRadius,
              !.str["stroke"] = ColorOf(serie)]

CursorPointJoin(t, g, serie, rec) ==
    LET sel == SelectAll(t, g, {j \in 1..Len(t) : IsCursorPoint(t[j])})
    IN Join(t, g, sel, 1,
            [k \in Updating(sel, 1) |-> CursorPoint(t[sel[k]], serie, rec)],
            [k \in Entering(sel, 1) |-> CursorPoint(Node("circle", 0), serie, rec)])

RECURSIVE CursorPoints(_, _, _, _)
CursorPoints(t, groups, k, rec) ==
    IF k = 0 THEN t
    ELSE CursorPoints(CursorPointJoin(t, groups[k], ySeries[k], rec), groups, k - 1, rec)

VerticalLine(n, rec) ==
    [n EXCEPT !.cls = {"cursor", "vertical-line"},
              !.num["x1"] = ScaleApply(xScale, XOf(rec)),
              !.num["y1"] = yScale.r0,
              !.num["x2"] = ScaleApply(xScale, XOf(rec)),
              !.num["y2"] = yScale.r1]

(* #renderCursor(closestDatum) *)
RenderCursorAt(t, rec) ==
    LET t1 == SeriesRoot(t)
        sg == SeriesRootAt(t)
        t2 == SeriesGroups(t1, sg)
        t3 == CursorPoints(t2, SeriesGroupsAt(t1, sg), Len(ySeries), rec)
        sel == SelectAll(t3, sg, {j \in 1..Len(t3) : IsVerticalLine(t3[j])})
    IN Join(t3, sg, sel, 1,
            [k \in Updating(sel, 1) |-> VerticalLine(t3[sel[k]], rec)],
            [k \in Entering(sel, 1) |-> VerticalLine(Node("line", 0), rec)])

(* The bounds test with strict comparisons *)
WithinBoundsExclusive(mx, my) ==
    /\ mx > xScale.r0 /\ mx < xScale.r1
    /\ my > yScale.r1 /\ my < yScale.r0

(* isWithinXAxis && isWithinYAxis *)
WithinBounds(mx, my) ==
    /\ mx >= xScale.r0 /\ mx <= xScale.r1
    /\ my >= yScale.r1 /\ my <= yScale.r0

(* #handleCursor(event) *)
HandleCursor(t, mx, my) ==
    IF ~WithinBounds(mx, my)
    THEN RemoveNodes(t, {j \in Descendants(t, 1) : IsCursor(t[j])})
    ELSE RenderCursorAt(t, dataset[ClosestDatum(1, 1, mx)])

(* renderCursor() without the isChartStatic return *)
OnRenderCursorAlways(n) == 1

(* renderCursor() adding a listener to those attached, as addEventListener *)
(* does with a new function each time                                      *)
OnRenderCursorAdding(n) == IF options.isChartStatic THEN n ELSE n + 1

(* renderCursor(): nothing on a static chart; otherwise                    *)
(* svg.on("mousemove", handler), which replaces the listener of that type: *)
(* the listeners attached afterwards, out of n before                      *)
OnRenderCursor(n) == IF options.isChartStatic THEN n ELSE 1

RenderCursor ==
    /\ phase = "constructed"
    /\ IsLineKind(args.kind)
    /\ listeners' = OnRenderCursor(listeners)
    /\ last' = Op("renderCursor")
    /\ KeepScales
    /\ UNCHANGED <<args, phase, trace, dataset, ySeries, options,
                   dom, renders, handled, rendered, callerVars, decorationVars>>

(* Pointer positions relative to the render target: just outside each edge *)
(* of the plot area, on its corners and in its middle                      *)
PointerPositions ==
    LET l == DefaultMargin
        r == SvgSize.width - DefaultMargin
        u == DefaultMargin
        b == SvgSize.height - DefaultMargin
        c == (l + r) \div 2
    IN {<<l - 1, c>>, <<r + 1, c>>, <<c, u - 1>>, <<c, b + 1>>,
        <<l, u>>, <<r, b>>, <<c, c>>}

(* The event dispatched to the n listeners attached, one after the other *)
RECURSIVE Dispatch(_, _, _, _)
Dispatch(t, n, mx, my) ==
    IF n = 0 THEN t ELSE Dispatch(HandleCursor(t, mx, my), n - 1, mx, my)

(* A mousemove event on the render target *)
PointerMove ==
    /\ phase = "constructed"
    /\ \E p \in PointerPositions :
          /\ dom' = Dispatch(dom, listeners, p[1], p[2])
          /\ last' = IF listeners > 0
                     THEN [op |-> "handleCursor", mx |-> p[1], my |-> p[2],
                           sel |-> IF WithinBounds(p[1], p[2])
                                   THEN ClosestDatum(1, 1, p[1]) ELSE 0]
                     ELSE Op("mousemove")
          /\ handled' = IF listeners = 0 THEN handled
                        ELSE IF WithinBounds(p[1], p[2]) THEN ClosestDatum(1, 1, p[1])
                        ELSE 0
    /\ KeepScales
    /\ UNCHANGED <<args, phase, trace, dataset, ySeries, options,
                   listeners, renders, rendered, callerVars, decorationVars>>

Next ==
    \/ Construct
    \/ RenderSeries
    \/ RenderCursor
    \/ PointerMove
    \/ TimerFlush

Spec == Init /\ [][Next]_vars

NextCtor == Construct

InitScales == InitOf(ScaleArgs, ScaleSizes, {EmptyTarget})
SpecScales == InitScales /\ [][NextCtor]_vars

SpecCtor == InitCtor /\ [][NextCtor]_vars

-----------------------------------------------------------------------------
(* CartesianPlane: axes, grid lines, legend, title and axis labels *)

MaxDecorations == 2

DefaultTickSize == 5
DefaultTickPadding == 10
LegendItemHeight == 20
LegendSwatch == 16
LegendTextX == 22
LegendTextY == 12

(* A selector list such as ".x, .axis": some class named is one of the *)
(* element's class tokens                                              *)
SelectByAnyClass(t, i, classes) ==
    SelectAll(t, i, {j \in 1..Len(t) : classes \cap t[j].cls # {}})

(* A compound class selector such as ".x.axis": every class named is one of *)
(* the element's class tokens                                               *)
SelectByClasses(t, i, classes) == SelectAll(t, i, {j \in 1..Len(t) : classes \subseteq t[j].cls})

(* scale.ticks() for a domain of integers whose tick step is an integer:   *)
(* the multiples of the step within the domain, the one value of a domain  *)
(* that is a single point, nothing for a domain that is NaN                *)
Ticks(s) ==
    IF s.d0 = Undef \/ s.d1 = Undef THEN <<>>
    ELSE IF s.d0 = s.d1 THEN <<s.d0>>
    ELSE LET step == TickIncrement(s.d1 - s.d0)
             first == Ceil(s.d0, step)
             count == Floor(s.d1, step) - first + 1
         IN [k \in 1..count |-> (first + k - 1) * step]

(* d3.format(code)(value) of an integer tick value; without a code the     *)
(* scale's own tick format                                                 *)
TickText(code, value) ==
    IF code = Absent \/ code = "" THEN ToString(value) ELSE ToString(value) \o ".0"

(* The children d3-axis keeps in the axis group for a scale: path.domain   *)
(* and, per tick, g.tick holding a line and a text (depths relative to the *)
(* group).  Ticks are keyed by value, so for the scale of construction a   *)
(* second call finds the ticks of the first.                               *)
AxisContent(s, orient, code) ==
    LET ticks == Ticks(s)
        tick(k) == IF orient = "x"
                   THEN SetNum(SetNum([Node("g", 1) EXCEPT !.cls = {"tick"}],
                                      "tx", ScaleApply(s, Num(ticks[k]))), "ty", 0)
                   ELSE SetNum(SetNum([Node("g", 1) EXCEPT !.cls = {"tick"}],
                                      "tx", 0), "ty", ScaleApply(s, Num(ticks[k])))
        mark == IF orient = "x"
                THEN SetNum(SetStr(Node("line", 2), "stroke", "currentColor"),
                            "y2", DefaultTickSize)
                ELSE SetNum(SetStr(Node("line", 2), "stroke", "currentColor"),
                            "x2", 0 - DefaultTickSize)
        text(k) == LET shown == SetStr(SetStr(Node("text", 2), "fill", "currentColor"),
                                       "text", TickText(code, ticks[k]))
                   IN IF orient = "x"
                      THEN SetNum(shown, "y", DefaultTickSize + DefaultTickPadding)
                      ELSE SetNum(shown, "x", 0 - (DefaultTickSize + DefaultTickPadding))
        domain == SetStr([Node("path", 1) EXCEPT !.cls = {"domain"}], "stroke", "currentColor")
    IN [i \in 1..(1 + 3 * Len(ticks)) |->
          IF i = 1 THEN domain
          ELSE LET k == ((i - 2) \div 3) + 1
               IN CASE (i - 2) % 3 = 0 -> tick(k)
                    [] (i - 2) % 3 = 1 -> mark
                    [] OTHER -> text(k)]

(* selection.call(axis) on the axis group g: its children become those of  *)
(* the axis                                                                *)
CallAxis(t, g, s, orient, code) ==
    LET content == AxisContent(s, orient, code)
        e == SubtreeEnd(t, g)
    IN SubSeq(t, 1, g - 1)
       \o <<SetStr(t[g], "fill", "none")>>
       \o [k \in 1..Len(content) |-> [content[k] EXCEPT !.depth = t[g].depth + @]]
       \o SubSeq(t, e + 1, Len(t))

(* The axis group with its class written as the one token "x.axis" *)
AxisGroupDotted(n, orient, tx, ty) ==
    SetNum(SetNum([n EXCEPT !.cls = {orient \o ".axis"}], "tx", tx), "ty", ty)

(* .selectAll(".x.axis").data([null]).join("g").attr("class", "x axis")    *)
(*    .attr("transform", translate(..)).call(axis)                         *)
AxisGroup(n, orient, tx, ty) ==
    SetNum(SetNum([n EXCEPT !.cls = {orient, "axis"}], "tx", tx), "ty", ty)

Axis(t, s, orient, tx, ty, code) ==
    LET sel == SelectByClasses(t, 1, {orient, "axis"})
        t1 == Join(t, 1, sel, 1,
                   [k \in Updating(sel, 1) |-> AxisGroup(t[sel[k]], orient, tx, ty)],
                   [k \in Entering(sel, 1) |-> AxisGroup(Node("g", 0), orient, tx, ty)])
    IN CallAxis(t1, Joined(t, 1, sel, 1)[1], s, orient, code)

(* A decoration method was called with this argument *)
Decorated(method, argument) ==
    /\ phase = "constructed"
    /\ decorations < MaxDecorations
    /\ decorations' = decorations + 1
    /\ recent' = [recent EXCEPT ![method] = argument]
    /\ last' = Op(method)
    /\ KeepScales
    /\ UNCHANGED <<args, phase, trace, dataset, ySeries, options, listeners, renders,
                   handled, rendered, callerVars>>

FormatCodes == {Absent, ".1f"}

(* chart.renderXAxis(formatCode?) *)
RenderXAxis ==
    \E code \in FormatCodes :
        /\ Decorated("renderXAxis", code)
        /\ dom' = Axis(dom, xScale, "x", 0, targetSize.height - options.margin, code)

(* chart.renderYAxis(numberFormat?) *)
RenderYAxis ==
    \E code \in FormatCodes :
        /\ Decorated("renderYAxis", code)
        /\ dom' = Axis(dom, yScale, "y", options.margin, 0, code)

(* The class attribute "x.grid" / "y.grid" is one class token holding a dot *)
GridClass(orient) == {orient \o ".grid"}

(* .attr("class", "y.grid").attr("x1", xScale(xMin)).attr("x2", xScale(xMax)) *)
(*    .attr("y1", d => yScale(d)).attr("y2", d => yScale(d)), and its x twin  *)
GridLine(n, orient, tick) ==
    LET line == [n EXCEPT !.cls = GridClass(orient)]
    IN IF orient = "y"
       THEN [line EXCEPT !.num["x1"] = ScaleApply(xScale, Num(xScale.d0)),
                         !.num["x2"] = ScaleApply(xScale, Num(xScale.d1)),
                         !.num["y1"] = ScaleApply(yScale, Num(tick)),
                         !.num["y2"] = ScaleApply(yScale, Num(tick))]
       ELSE [line EXCEPT !.num["x1"] = ScaleApply(xScale, Num(tick)),
                         !.num["x2"] = ScaleApply(xScale, Num(tick)),
                         !.num["y1"] = ScaleApply(yScale, Num(yScale.d0)),
                         !.num["y2"] = ScaleApply(yScale, Num(yScale.d1))]

(* .selectAll(".y.grid").data(yScale.ticks()).join("line")..., and its x twin *)
GridLines(t, orient, ticks) ==
    LET sel == SelectByClasses(t, 1, {orient, "grid"})
    IN Join(t, 1, sel, Len(ticks),
            [k \in Updating(sel, Len(ticks)) |-> GridLine(t[sel[k]], orient, ticks[k])],
            [k \in Entering(sel, Len(ticks)) |->
                GridLine(Node("line", 0), orient, ticks[Len(sel) + k])])

(* chart.renderXGridLines() *)
RenderXGridLines ==
    /\ Decorated("renderXGridLines", Absent)
    /\ dom' = GridLines(dom, "x", Ticks(xScale))

(* chart.renderYGridLines() *)
RenderYGridLines ==
    /\ Decorated("renderYGridLines", Absent)
    /\ dom' = GridLines(dom, "y", Ticks(yScale))

(* _innerWidth and _innerHeight: the measured size now, less the margins *)
InnerWidth == targetSize.width - 2 * options.margin
InnerHeight == targetSize.height - 2 * options.margin

(* legendGroup.selectAll("g") taken from the svg instead of the legend group *)
LegendItemSelectionFromRoot(t, lg) == SelectAll(t, 1, {j \in 1..Len(t) : t[j].tag = "g"})

(* legendGroup.selectAll("g") *)
LegendItemSelection(t, lg) == SelectAll(t, lg, {j \in 1..Len(t) : t[j].tag = "g"})

(* .attr("class", "legend-item").attr("transform", translate(0, i * legendItemHeight)) *)
LegendItem(n, i, h) ==
    SetNum(SetNum([n EXCEPT !.cls = {"legend-item"}], "tx", 0), "ty", i * h)

(* rect: width 16, height 16, fill color ?? "steelblue" *)
LegendRect(n, serie) ==
    SetStr(SetNum(SetNum(n, "width", LegendSwatch), "height", LegendSwatch),
           "fill", ColorOf(serie))

(* text: x 22, y 12, the descriptor's label *)
LegendText(n, serie) ==
    SetStr(SetNum(SetNum(n, "x", LegendTextX), "y", LegendTextY), "text", serie.label)

(* .call(group => ...): in the k-th of the joined items and in those after *)
(* it, the joins of one rect and one text to the item's descriptor         *)
RECURSIVE LegendItemContents(_, _, _)
LegendItemContents(t, items, k) ==
    IF k > Len(items) THEN t
    ELSE LET it == items[k]
             rects == SelectAll(t, it, {j \in 1..Len(t) : t[j].tag = "rect"})
             t1 == Join(t, it, rects, 1,
                        [h \in Updating(rects, 1) |-> LegendRect(t[rects[h]], ySeries[k])],
                        [h \in Entering(rects, 1) |-> LegendRect(Node("rect", 0), ySeries[k])])
             texts == SelectAll(t1, it, {j \in 1..Len(t1) : t1[j].tag = "text"})
             t2 == Join(t1, it, texts, 1,
                        [h \in Updating(texts, 1) |-> LegendText(t1[texts[h]], ySeries[k])],
                        [h \in Entering(texts, 1) |-> LegendText(Node("text", 0), ySeries[k])])
             moved == [h \in 1..Len(items) |->
                         IF items[h] > it THEN items[h] + (Len(t2) - Len(t)) ELSE items[h]]
         IN LegendItemContents(t2, moved, k + 1)

(* .selectAll(".legend").data([null]).join("g").attr("class", "legend")     *)
(*    .attr("transform", translate(legendX, legendY))                       *)
LegendGroup(n, legendX, legendY) ==
    SetNum(SetNum([n EXCEPT !.cls = {"legend"}], "tx", legendX), "ty", legendY)

(* x || innerWidth: the default also for a coordinate given as 0 *)
LegendPositionFalsy(given, default) == IF given = Undef \/ given = 0 THEN default ELSE given

(* x ?? innerWidth and y ?? m.top: the default for a coordinate not given, *)
(* a given 0 included among the given                                       *)
LegendPosition(given, default) == IF given = Undef THEN default ELSE given

(* The parameter default legendItemHeight = 20 *)
LegendHeight(h) == IF h = Undef THEN LegendItemHeight ELSE h

(* The body of renderLegend(legendItemHeight, {x, y}); Undef is an argument *)
(* not given                                                                *)
Legend(t, h, x, y) ==
    LET sel == SelectByClasses(t, 1, {"legend"})
        t1 == Join(t, 1, sel, 1,
                   [k \in Updating(sel, 1) |->
                       LegendGroup(t[sel[k]], LegendPosition(x, InnerWidth),
                                   LegendPosition(y, options.margin))],
                   [k \in Entering(sel, 1) |->
                       LegendGroup(Node("g", 0), LegendPosition(x, InnerWidth),
                                   LegendPosition(y, options.margin))])
        lg == Joined(t, 1, sel, 1)[1]
        isel == LegendItemSelection(t1, lg)
        m == Len(ySeries)
        t2 == Join(t1, lg, isel, m,
                   [k \in Updating(isel, m) |-> LegendItem(t1[isel[k]], k - 1, LegendHeight(h))],
                   [k \in Entering(isel, m) |->
                       LegendItem(Node("g", 0), Len(isel) + k - 1, LegendHeight(h))])
    IN LegendItemContents(t2, Joined(t1, lg, isel, m), 1)

(* The arguments of a renderLegend call as recent keeps them *)
LegendArguments(h, x, y) == ToString(<<h, x, y>>)

(* chart.renderLegend(h, {x, y}) *)
RenderLegendWith(h, x, y) ==
    /\ Decorated("renderLegend", LegendArguments(h, x, y))
    /\ dom' = Legend(dom, h, x, y)

(* chart.renderLegend() *)
RenderLegend == RenderLegendWith(Undef, Undef, Undef)

(* chart.renderLegend(legendItemHeight?, {x?, y?}) with arguments given or not *)
LegendHeights == {Undef, 12}
LegendCoordinates == {Undef, 0, 50}
RenderLegendAt ==
    \E h \in LegendHeights, x \in LegendCoordinates, y \in LegendCoordinates :
        RenderLegendWith(h, x, y)

(* .selectAll(selector).data([null]).join("text").attr("class", ..)        *)
(*    .attr("x", x).attr("y", y).attr("dy", dy).text(content)              *)
SingleText(t, classes, x, y, transform, dy, content) ==
    LET sel == SelectByClasses(t, 1, classes)
        made(n) == [n EXCEPT !.cls = classes, !.num["x"] = x, !.num["y"] = y,
                             !.str["transform"] = transform, !.str["dy"] = dy,
                             !.str["text"] = content]
    IN Join(t, 1, sel, 1,
            [k \in Updating(sel, 1) |-> made(t[sel[k]])],
            [k \in Entering(sel, 1) |-> made(Node("text", 0))])

Texts == {"Sales", "Cost"}

(* chart.renderChartTitle(title) *)
RenderChartTitle ==
    \E title \in Texts :
        /\ Decorated("renderChartTitle", title)
        /\ dom' = SingleText(dom, {"chart-title"}, InnerWidth \div 2 + options.margin,
                             options.margin \div 2, Absent, "0.5em", title)

(* chart.renderYAxisLabel(label) *)
RenderYAxisLabel ==
    \E label \in Texts :
        /\ Decorated("renderYAxisLabel", label)
        /\ dom' = SingleText(dom, {"y", "axis-label"}, 0 - options.margin, options.margin,
                             "rotate(-90, margin.left, margin.top)", "1.2em", label)

(* chart.renderXAxisLabel(label) *)
RenderXAxisLabel ==
    \E label \in Texts :
        /\ Decorated("renderXAxisLabel", label)
        /\ dom' = SingleText(dom, {"x", "axis-label"}, InnerWidth \div 2 + options.margin,
                             InnerHeight + options.margin, Absent, "-0.5em", label)

(* A render target the caller has put elements of its own into: a group of *)
(* a rect and a text, a line and a circle, none with a class of the chart  *)
UnrelatedChildren ==
    << [Node("g", 1) EXCEPT !.cls = {"annotation"}],
       SetNum(SetNum(Node("rect", 2), "width", 9), "height", 9),
       SetStr(Node("text", 2), "text", "note"),
       SetNum(SetNum(Node("line", 1), "x1", 7), "x2", 70),
       SetNum(Node("circle", 1), "r", 3) >>

DecoratedTarget == EmptyTarget \o UnrelatedChildren

(* Arguments of the decoration runs: one record, so that the x domain is  *)
(* the single point [4, 4] with one tick and the y domain [0, 8] has nine *)
DecoRecords == <<Rec(Num(4), Num(0), Num(8), Num(6))>>
DecoArgs ==
    { Args(k, "array", DecoRecords, "ok", "array", s,
           [isChartStatic |-> FALSE, transitionTime |-> Undef]) :
        k \in {"Line", "Scatter"}, s \in {s \in ScaleSeriesLists : Len(s) = 2} }

InitDeco == InitOf(DecoArgs, {SvgSize}, {DecoratedTarget})

NextDeco ==
    \/ Construct
    \/ RenderSeries
    \/ RenderCursor
    \/ PointerMove
    \/ TimerFlush
    \/ RenderXAxis
    \/ RenderYAxis
    \/ RenderXGridLines
    \/ RenderYGridLines
    \/ RenderLegend
    \/ RenderChartTitle
    \/ RenderXAxisLabel
    \/ RenderYAxisLabel

SpecDeco == InitDeco /\ [][NextDeco]_vars

(* The legend runs: every list of descriptors, on a target of either size *)
LegendArgs ==
    { Args(k, "array", DecoRecords, "ok", "array", s,
           [isChartStatic |-> FALSE, transitionTime |-> Undef]) :
        k \in {"Line", "Scatter"}, s \in SeriesLists }

InitLegend == InitOf(LegendArgs, {SvgSize, [width |-> 300, height |-> 240]}, {DecoratedTarget})

NextLegend ==
    \/ Construct
    \/ RenderSeries
    \/ TimerFlush
    \/ RenderLegendAt

SpecLegend == InitLegend /\ [][NextLegend]_vars

-----------------------------------------------------------------------------
(* The caller after construction: the records and the array it passed are  *)
(* its own objects, the render target is an element of its page.           *)

MaxEdits == 2

(* Arguments of the data runs: two records, descriptors of different labels *)
DataRecords == <<Rec(Num(0), Num(0), Num(4), Num(6)), Rec(Num(4), Num(4), Num(0), Undefined)>>
DataArgs ==
    { Args(k, "array", DataRecords, "ok", "array", s,
           [isChartStatic |-> FALSE, transitionTime |-> Undef]) :
        k \in {"Line", "Scatter"}, s \in ScaleSeriesLists }

(* Field values the caller writes into a record *)
RecordChanges == { <<"x", Num(2)>>, <<"y1", Num(2)>>, <<"radii", Num(9)>> }

AddedRecord == Rec(Num(2), Num(2), Num(2), Undefined)

(* The caller's array now: the records passed at construction are the very *)
(* objects the chart holds                                                  *)
CallerArray(ids) ==
    [i \in 1..Len(ids) |-> IF ids[i] = 0 THEN AddedRecord ELSE dataset[ids[i]]]

(* The chart's array being the caller's array itself *)
DatasetAliased(own, callerNow) == callerNow

(* this.#dataset = [...dataset]: the chart's array is one of its own, so it *)
(* is what it was whatever the caller's array has become                    *)
DatasetCopied(own, callerNow) == own

(* record[field] = value on a record of the dataset *)
MutateRecord ==
    /\ phase = "constructed"
    /\ edits < MaxEdits
    /\ \E i \in 1..Len(dataset), c \in RecordChanges :
          /\ dataset[i][c[1]] # c[2]
          /\ dataset' = [dataset EXCEPT ![i][c[1]] = c[2]]
    /\ edits' = edits + 1
    /\ last' = Op("mutateRecord")
    /\ UNCHANGED <<args, phase, trace, ySeries, options, xScale, yScale, dom, listeners,
                   renders, handled, rendered, targetSize, caller, decorationVars>>

(* array.push(record) on the array passed as dataset *)
CallerPush ==
    /\ phase = "constructed"
    /\ edits < MaxEdits
    /\ caller' = Append(caller, 0)
    /\ dataset' = DatasetCopied(dataset, CallerArray(caller'))
    /\ edits' = edits + 1
    /\ last' = Op("callerPush")
    /\ UNCHANGED <<args, phase, trace, ySeries, options, xScale, yScale, dom, listeners,
                   renders, handled, rendered, targetSize, decorationVars>>

(* array.pop() on the array passed as dataset *)
CallerPop ==
    /\ phase = "constructed"
    /\ edits < MaxEdits
    /\ caller # <<>>
    /\ caller' = SubSeq(caller, 1, Len(caller) - 1)
    /\ dataset' = DatasetCopied(dataset, CallerArray(caller'))
    /\ edits' = edits + 1
    /\ last' = Op("callerPop")
    /\ UNCHANGED <<args, phase, trace, ySeries, options, xScale, yScale, dom, listeners,
                   renders, handled, rendered, targetSize, decorationVars>>

(* The page lays the render target out at another size *)
Resize ==
    /\ phase = "constructed"
    /\ edits < MaxEdits
    /\ targetSize' \in {SvgSize, [width |-> 300, height |-> 240]} \ {targetSize}
    /\ edits' = edits + 1
    /\ last' = Op("resize")
    /\ UNCHANGED <<args, phase, trace, dataset, ySeries, options, xScale, yScale, dom,
                   listeners, renders, handled, rendered, caller, decorationVars>>

InitData == InitOf(DataArgs, {SvgSize}, {EmptyTarget})

NextData ==
    \/ Construct
    \/ RenderSeries
    \/ RenderCursor
    \/ PointerMove
    \/ TimerFlush
    \/ MutateRecord
    \/ CallerPush
    \/ CallerPop
    \/ Resize

SpecData == InitData /\ [][NextData]_vars

-----------------------------------------------------------------------------
(* Properties *)

SeriesElements(t) ==
    {i \in 1..Len(t) : HasClass(t[i], "serie") \/ HasClass(t[i], "scatter-point")}

CursorElements(t) == {i \in 1..Len(t) : HasClass(t[i], "cursor")}

(* C1: for every variant, once renderSeries() has run no further step, in   *)
(* particular no further renderSeries() call, changes the number of series  *)
(* elements (paths or points) in the render target: after N calls it is the *)
(* number after one call.                                                   *)
RenderSeriesKeepsCount ==
    [][renders >= 1 =>
         Cardinality(SeriesElements(dom')) = Cardinality(SeriesElements(dom))]_vars

(* A Scatter chart of two records and two descriptors, rendered twice *)
RenderedTwice ==
    /\ renders >= 2
    /\ last.op = "renderSeries"
    /\ args.kind = "Scatter"
    /\ Len(dataset) = 2 /\ Len(ySeries) = 2
    /\ Cardinality(SeriesElements(dom)) = 4

(* C2: on a Scatter chart, when the first renderSeries() returns the render *)
(* target holds exactly |Y| x |D| scatter-point circles, and for every      *)
(* descriptor j and record i one of them has data-label = label_j,          *)
(* cx = xScale(x(D[i])) and cy = yScale(y_j(D[i])), whatever the labels.    *)
ScatterPointPerPair ==
    (args.kind = "Scatter" /\ renders = 1 /\ last.op = "renderSeries") =>
        LET pts == {i \in 1..Len(dom) :
                      HasClass(dom[i], "scatter-point") /\ dom[i].tag = "circle"}
        IN /\ Cardinality(pts) = Len(ySeries) * Len(dataset)
           /\ \A j \in 1..Len(ySeries), i \in 1..Len(dataset) :
                 \E p \in pts :
                    /\ dom[p].label = ySeries[j].label
                    /\ dom[p].num["cx"] = ScaleApply(xScale, dataset[i].x)
                    /\ dom[p].num["cy"] = ScaleApply(yScale, dataset[i][ySeries[j].field])

InvalidArguments ==
    \/ args.datasetArg # "array" \/ Len(args.records) = 0
    \/ args.xSerie # "ok"
    \/ args.ySeriesArg # "array" \/ Len(args.series) = 0

(* C3: construction throws when the dataset is empty or no array, when the  *)
(* x descriptor or its field is missing, or when the y descriptor list is   *)
(* missing, empty or no array; no scale has been derived when it throws.    *)
InvalidArgumentsThrowBeforeScales ==
    (phase # "new" /\ InvalidArguments) =>
        /\ phase = "thrown"
        /\ \A k \in 1..Len(trace) :
              trace[k] \notin {"getXDomain", "xScale", "getYDomain", "yScale"}
        /\ xScale = NoScale /\ yScale = NoScale

(* A construction that threw on an empty y descriptor list alone *)
EmptySeriesThrown ==
    /\ phase = "thrown"
    /\ args.datasetArg = "array" /\ Len(args.records) > 0
    /\ args.xSerie = "ok"
    /\ args.ySeriesArg = "array" /\ Len(args.series) = 0

(* C4: for every handled pointer move within the plotted bounds, the record *)
(* selected has the minimum distance |xScale(x(record)) - mouseX| over the  *)
(* dataset, and is the first of the records at that distance.               *)
CursorSelectsNearestFirst ==
    (last.op = "handleCursor" /\ last.sel # 0) =>
        LET px(i) == ScaleApply(xScale, dataset[i].x)
            placed == {i \in 1..Len(dataset) : px(i) # Undef}
            dist(i) == IF px(i) >= last.mx THEN px(i) - last.mx ELSE last.mx - px(i)
        IN /\ last.sel \in placed
           /\ \A i \in placed : dist(last.sel) <= dist(i)
           /\ \A i \in placed : i < last.sel => dist(i) > dist(last.sel)

(* C5: on a chart constructed with isChartStatic: true no pointer-move      *)
(* listener is ever attached and the render target never holds a cursor     *)
(* element, whatever renderCursor() calls and pointer moves happen.         *)
StaticChartHasNoCursor ==
    args.options.isChartStatic =>
        listeners = 0 /\ CursorElements(dom) = {}

(* renderCursor() has just returned on a static Line/Time chart with drawn series *)
StaticRenderCursorReturned ==
    /\ args.options.isChartStatic
    /\ options.isChartStatic
    /\ last.op = "renderCursor"
    /\ renders >= 1

OutsidePlot(mx, my) ==
    \/ mx < DefaultMargin \/ mx > SvgSize.width - DefaultMargin
    \/ my < DefaultMargin \/ my > SvgSize.height - DefaultMargin

WithoutCursor(t) == SelectSeq(t, LAMBDA n : ~HasClass(n, "cursor"))

(* C6: a handled pointer move outside the plotted bounds (x outside         *)
(* [margin.left, width - margin.right] or y outside [margin.top,            *)
(* height - margin.bottom]) leaves no cursor element and changes no other   *)
(* element; a move on the bounds themselves is handled as inside.           *)
OutOfBoundsClearsCursor ==
    [][last'.op = "handleCursor" =>
         IF OutsidePlot(last'.mx, last'.my)
         THEN /\ CursorElements(dom') = {}
              /\ dom' = WithoutCursor(dom)
              /\ last'.sel = 0
         ELSE last'.sel # 0]_vars

(* The pointer has just left the plot area of a chart with drawn series *)
PointerLeftPlot ==
    /\ last.op = "handleCursor"
    /\ OutsidePlot(last.mx, last.my)
    /\ renders >= 1
    /\ SeriesElements(dom) # {}
    /\ CursorElements(dom) = {}

(* C7: the cursor elements are those of the most recent handled pointer     *)
(* event: none if it was out of bounds (or there was none); otherwise one   *)
(* cursor circle per y descriptor, in the descriptors' order, at            *)
(* (xScale(x(r)), yScale(y_j(r))) for the selected record r, and one        *)
(* vertical line at x = xScale(x(r)) from the bottom to the top of the y    *)
(* range.  Nothing else carries the cursor class.                           *)
CursorReflectsLastEvent ==
    phase = "constructed" =>
        LET points == SelectSeq([i \in 1..Len(dom) |-> i],
                                LAMBDA i : HasClass(dom[i], "cursor") /\ dom[i].tag = "circle")
            guides == SelectSeq([i \in 1..Len(dom) |-> i],
                                LAMBDA i : HasClass(dom[i], "cursor") /\ dom[i].tag = "line")
        IN IF handled = 0 THEN CursorElements(dom) = {}
           ELSE LET r == dataset[handled]
                    px == ScaleApply(xScale, r.x)
                IN /\ Cardinality(CursorElements(dom)) = Len(ySeries) + 1
                   /\ Len(points) = Len(ySeries)
                   /\ \A j \in 1..Len(ySeries) :
                         /\ dom[points[j]].num["cx"] = px
                         /\ dom[points[j]].num["cy"] = ScaleApply(yScale, r[ySeries[j].field])
                   /\ Len(guides) = 1
                   /\ dom[guides[1]].num["x1"] = px /\ dom[guides[1]].num["x2"] = px
                   /\ dom[guides[1]].num["y1"] = SvgSize.height - DefaultMargin
                   /\ dom[guides[1]].num["y2"] = DefaultMargin

(* A second renderSeries() after a cursor was drawn for two descriptors *)
CursorKeptAcrossRender ==
    /\ handled # 0
    /\ Len(ySeries) = 2
    /\ renders = 2
    /\ last.op = "renderSeries"
    /\ Cardinality(CursorElements(dom)) = 3

(* C8: on a chart constructed with isChartStatic: true, when renderSeries() *)
(* returns no element has a transition pending, every Scatter circle has    *)
(* its resolved radius and its mapped cx/cy, and every Line path has its    *)
(* final path data.                                                         *)
StaticRenderIsFinal ==
    (args.options.isChartStatic /\ last.op = "renderSeries") =>
        /\ \A i \in 1..Len(dom) : dom[i].trans = <<>>
        /\ \A i \in 1..Len(dom) :
              (HasClass(dom[i], "scatter-point") /\ dom[i].tag = "circle") =>
                 \E j \in 1..Len(ySeries), k \in 1..Len(dataset) :
                    /\ dom[i].label = ySeries[j].label
                    /\ dom[i].num["r"] =
                          IF dataset[k].radii.t = "num" THEN dataset[k].radii.v
                          ELSE IF ySeries[j].radii # Undef THEN ySeries[j].radii
                          ELSE DefaultRadii
                    /\ dom[i].num["cx"] = ScaleApply(xScale, dataset[k].x)
                    /\ dom[i].num["cy"] = ScaleApply(yScale, dataset[k][ySeries[j].field])
        /\ \A i \in 1..Len(dom) :
              HasClass(dom[i], "serie") =>
                 \E j \in 1..Len(ySeries) :
                    dom[i].d.pts =
                       [k \in 1..Len(dataset) |->
                          <<ScaleApply(xScale, dataset[k].x),
                            ScaleApply(yScale, dataset[k][ySeries[j].field])>>]

(* C9: on a chart constructed with isChartStatic false or omitted and       *)
(* transitionTime = T > 0, the chart's options hold T after construction    *)
(* and every transition renderSeries() has created has duration T.          *)
TransitionTimeKept ==
    (phase = "constructed" /\ ~args.options.isChartStatic
        /\ args.options.transitionTime > 0) =>
        /\ options.transitionTime = args.options.transitionTime
        /\ \A i \in 1..Len(dom) : \A k \in 1..Len(dom[i].trans) :
              dom[i].trans[k].dur = args.options.transitionTime

DefinedX ==
    SelectSeq([i \in 1..Len(args.records) |-> args.records[i].x],
              LAMBDA v : v.t \notin {"null", "undefined"})

(* What the first defined x value decides: the throw, or the x scale and its domain *)
XScaleDecidedByFirst ==
    IF DefinedX = <<>> \/ DefinedX[1].t \notin {"date", "num"}
    THEN phase = "thrown"
    ELSE LET nums == {DefinedX[i].v : i \in {k \in 1..Len(DefinedX) :
                                               DefinedX[k].t \in {"date", "num"}}}
             d == Nice(<<MinOf(nums), MaxOf(nums)>>)
         IN /\ phase = "constructed"
            /\ xScale.kind = IF DefinedX[1].t = "date" THEN "time" ELSE "linear"
            /\ xScale.d0 = d[1] /\ xScale.d1 = d[2]
            /\ xScale.r0 = DefaultMargin /\ xScale.r1 = SvgSize.width - DefaultMargin

(* C10: with otherwise valid arguments, the first x value that is neither   *)
(* null nor undefined decides: a Date gives a time scale, a number a linear *)
(* scale, in both cases over [min, max] of the defined x values (as         *)
(* timestamps for dates), on the range [margin.left, width - margin.right]; *)
(* anything else, or no defined x value, makes the constructor throw.       *)
XScaleByFirstDefined ==
    (phase # "new" /\ ~InvalidArguments) => XScaleDecidedByFirst

(* C10, amended: the same, for datasets whose defined x values are all of   *)
(* the first one's type (all Dates or all numbers).                         *)
XScaleByFirstDefinedOfOneType ==
    (phase # "new" /\ ~InvalidArguments
        /\ \A i \in 1..Len(DefinedX) : DefinedX[i].t = DefinedX[1].t) =>
        XScaleDecidedByFirst

(* A time scale decided by the second record, the first having no x *)
TimeScaleAfterNullFirst ==
    /\ phase = "constructed"
    /\ Len(args.records) = 2
    /\ args.records[1].x.t = "null"
    /\ args.records[2].x.t = "date"
    /\ xScale.kind = "time"
    /\ xScale.d0 = args.records[2].x.v

-----------------------------------------------------------------------------
(* Scales built by the constructor *)

(* The values the y descriptors extract that are numbers *)
NumericExtractions(records, series) ==
    LET extracted == { FieldOf(series[j], records[i]) :
                         i \in 1..Len(records), j \in 1..Len(series) }
    IN { val.v : val \in { e \in extracted : e.t = "num" } }

(* C11: once constructed, the y-scale domain is the niced [min V, max V] of  *)
(* the numeric extractions V of every y descriptor over every record; null,  *)
(* undefined, NaN and non-numeric strings contribute no value.               *)
YDomainOverNumericExtractions ==
    phase = "constructed" =>
        LET V == NumericExtractions(dataset, ySeries)
        IN V # {} => <<yScale.d0, yScale.d1>> = Nice(<<MinOf(V), MaxOf(V)>>)

(* C12: with numeric x values, the x-scale domain built at construction  *)
(* contains every extracted x value: d0 <= min(x) and d1 >= max(x).      *)
NiceOnlyWidensX ==
    (phase = "constructed" /\ xScale.kind = "linear" /\ xScale.d0 # Undef) =>
        \A i \in 1..Len(dataset) :
            dataset[i].x.t = "num" => xScale.d0 <= dataset[i].x.v /\ dataset[i].x.v <= xScale.d1

(* The extent [3, 40] was built into the domain [0, 40] *)
XDomainWidened ==
    /\ phase = "constructed"
    /\ \E i \in 1..Len(dataset) : dataset[i].x = Num(3)
    /\ \E i \in 1..Len(dataset) : dataset[i].x = Num(40)
    /\ xScale.d0 = 0
    /\ xScale.d1 = 40

Between(v, a, b) == (a <= v /\ v <= b) \/ (b <= v /\ v <= a)

(* The ranges the constructor gives the scales, and every value of a domain *)
(* mapped between the ends of its range                                     *)
RangesFromMeasuredSize ==
    /\ <<xScale.r0, xScale.r1>> = <<DefaultMargin, targetSize.width - DefaultMargin>>
    /\ <<yScale.r0, yScale.r1>> = <<targetSize.height - DefaultMargin, DefaultMargin>>
    /\ xScale.d0 # Undef =>
           \A v \in xScale.d0..xScale.d1 :
               Between(ScaleApply(xScale, Num(v)), xScale.r0, xScale.r1)
    /\ yScale.d0 # Undef =>
           \A v \in yScale.d0..yScale.d1 :
               Between(ScaleApply(yScale, Num(v)), yScale.r0, yScale.r1)

(* yScale(a) > yScale(a + 1) for every two consecutive values of the domain, *)
(* hence yScale(a) > yScale(b) for all its values a < b                      *)
YInverted ==
    yScale.d0 # Undef =>
        \A a \in yScale.d0..(yScale.d1 - 1) :
            ScaleApply(yScale, Num(a)) > ScaleApply(yScale, Num(a + 1))

(* C13: with W x H the target's measured size at construction, the x range *)
(* is [margin.left, W - margin.right], the y range [H - margin.bottom,     *)
(* margin.top], every value of a domain maps inside the margin box, and    *)
(* for y values a < b, yScale(a) > yScale(b).                              *)
RangesInsideMarginsYInverted ==
    phase = "constructed" => RangesFromMeasuredSize /\ YInverted

(* C13, amended: the same, with y inverted when the measured height exceeds *)
(* the top and bottom margins together.                                     *)
RangesInsideMarginsYInvertedWhenTaller ==
    phase = "constructed" =>
        /\ RangesFromMeasuredSize
        /\ targetSize.height > 2 * DefaultMargin => YInverted

(* On a 300 x 240 target the y domain [0, 50] maps 50 to the top margin and *)
(* 0 to the bottom one                                                      *)
InvertedOnLargerTarget ==
    /\ phase = "constructed"
    /\ targetSize.height = 240
    /\ <<yScale.d0, yScale.d1>> = <<0, 50>>
    /\ ScaleApply(yScale, Num(50)) = 30
    /\ ScaleApply(yScale, Num(0)) = 210

-----------------------------------------------------------------------------
(* The chart and the caller's later changes *)

(* C14: after construction the domain and the range of the x-scale and of *)
(* the y-scale never change, whichever render method, renderCursor() call *)
(* or pointer event runs, and whatever the caller does to the records or   *)
(* to the size of the render target.                                       *)
ScalesNeverChange ==
    [][phase = "constructed" => (xScale' = xScale /\ yScale' = yScale)]_vars

(* renderSeries() has just run on a target that is laid out wider than at *)
(* construction, over records changed since, with the x range of then      *)
RenderedAfterResizeAndEdit ==
    /\ last.op = "renderSeries"
    /\ targetSize.width = 300
    /\ dataset # args.records
    /\ xScale.r1 = SvgSize.width - DefaultMargin

CallerOperations == {"mutateRecord", "callerPush", "callerPop", "resize"}

(* C15: the chart keeps the records present at construction in their     *)
(* order: a change of the caller's array changes neither the chart's     *)
(* array nor the render target, renderSeries() reads and the cursor      *)
(* selects among the records of construction, and no chart operation     *)
(* changes the caller's array.                                           *)
DatasetCopiedOnIngestion ==
    /\ [](phase = "constructed" =>
            /\ Len(dataset) = Len(args.records)
            /\ renders > 0 => Len(rendered) = Len(args.records)
            /\ handled \in 0..Len(args.records))
    /\ [][/\ (phase = "constructed" /\ caller' # caller) => (dataset' = dataset /\ dom' = dom)
          /\ last'.op \notin CallerOperations => caller' = caller]_vars

(* renderSeries() has just run after the caller's array grew by a record *)
RenderedAfterCallerPush ==
    /\ last.op = "renderSeries"
    /\ Len(caller) > Len(args.records)
    /\ Len(rendered) = Len(args.records)

PointsOf(t, label) == SelectSeq([i \in 1..Len(t) |-> i], LAMBDA i : IsScatterPointOf(t[i], label))

(* C16: when renderSeries() has run again after record values changed and *)
(* no transition is pending, every Scatter circle has the cx, cy and the  *)
(* radius a first render of the current values gives it, and every Line   *)
(* path goes through the current values.                                  *)
RerenderShowsCurrentValues ==
    (renders >= 2 /\ rendered = dataset /\ Pending(dom) = {}) =>
        \A j \in 1..Len(ySeries) :
            /\ args.kind = "Scatter" =>
                  LET points == PointsOf(dom, ySeries[j].label)
                  IN /\ Len(points) = Len(dataset)
                     /\ \A k \in 1..Len(dataset) :
                           /\ dom[points[k]].num["cx"] = ScaleApply(xScale, XOf(dataset[k]))
                           /\ dom[points[k]].num["cy"] =
                                  ScaleApply(yScale, FieldOf(ySeries[j], dataset[k]))
                           /\ dom[points[k]].num["r"] =
                                  RadiusOf(dataset[k], DefaultedRadii(ySeries[j]))
            /\ IsLineKind(args.kind) =>
                  \E i \in 1..Len(dom) :
                      /\ IsSerie(dom[i])
                      /\ dom[i].label = ySeries[j].label
                      /\ dom[i].d = LinePath(ySeries[j])

-----------------------------------------------------------------------------
(* Axes, grid lines, legend, title and labels *)

(* C17: the elements under the render target that the chart did not create *)
(* and that carry none of its class names stay what and where they are      *)
(* (depth, attributes, content) through renderSeries(), every other render  *)
(* method and every pointer event.                                          *)
UnrelatedChildrenUntouched ==
    \A k \in 1..Len(UnrelatedChildren) : dom[1 + k] = DecoratedTarget[1 + k]

(* The series are drawn, the legend is rendered and the pointer has just *)
(* left the plot, which removed the cursor                               *)
LegendAndCursorRemovedBesideUnrelated ==
    /\ renders >= 1
    /\ recent["renderLegend"] # NeverCalled
    /\ last.op = "handleCursor"
    /\ last.sel = 0
    /\ \E i \in 1..Len(dom) : HasClass(dom[i], "legend-item")
    /\ UnrelatedChildrenUntouched

(* The elements of one kind: those carrying every class of the kind *)
OfKind(t, classes) == {i \in 2..Len(t) : classes \subseteq t[i].cls}

DecorationKinds ==
    [renderXAxis |-> {"x", "axis"}, renderYAxis |-> {"y", "axis"},
     renderChartTitle |-> {"chart-title"}, renderXAxisLabel |-> {"x", "axis-label"},
     renderYAxisLabel |-> {"y", "axis-label"}]

(* C18: for renderXAxis, renderYAxis, renderChartTitle, renderXAxisLabel  *)
(* and renderYAxisLabel the render target holds no element of the kind    *)
(* before the first call and exactly one after any number of calls, and   *)
(* the title and the labels show the argument of the most recent call.    *)
SingleDecorationOfEachKind ==
    \A m \in DOMAIN DecorationKinds :
        LET found == OfKind(dom, DecorationKinds[m])
        IN /\ Cardinality(found) = IF recent[m] = NeverCalled THEN 0 ELSE 1
           /\ (recent[m] # NeverCalled /\ m \notin {"renderXAxis", "renderYAxis"}) =>
                 \A i \in found : dom[i].tag = "text" /\ dom[i].str["text"] = recent[m]
           /\ (recent[m] # NeverCalled /\ m \in {"renderXAxis", "renderYAxis"}) =>
                 \A i \in found : dom[i].tag = "g" /\ dom[i].depth = 1

(* The title was rendered twice, with another text the second time *)
TitleReplaced ==
    /\ decorations = 2
    /\ last.op = "renderChartTitle"
    /\ recent["renderChartTitle"] = "Cost"
    /\ \E i \in 1..Len(dom) : HasClass(dom[i], "chart-title") /\ dom[i].str["text"] = "Cost"
    /\ ~\E i \in 1..Len(dom) : dom[i].str["text"] = "Sales"

(* The grid lines the chart has drawn for one axis: the lines under the svg *)
(* whose class attribute is "x.grid" / "y.grid" or names x / y and grid     *)
GridLinesDrawn(t, orient) ==
    {i \in 2..Len(t) : /\ t[i].tag = "line"
                       /\ t[i].depth = 1
                       /\ (GridClass(orient) \subseteq t[i].cls \/ {orient, "grid"} \subseteq t[i].cls)}

GridScale(orient) == IF orient = "x" THEN xScale ELSE yScale
GridMethod(orient) == IF orient = "x" THEN "renderXGridLines" ELSE "renderYGridLines"
GridPosition(n, orient) == IF orient = "x" THEN n.num["x1"] ELSE n.num["y1"]

(* C19: after any number N >= 1 of renderYGridLines() calls the render   *)
(* target holds exactly one horizontal grid line per tick of the y-scale, *)
(* and after N renderXGridLines() calls one vertical grid line per tick   *)
(* of the x-scale.                                                        *)
GridLinesIdempotent ==
    \A orient \in {"x", "y"} :
        recent[GridMethod(orient)] # NeverCalled =>
            LET ticks == Ticks(GridScale(orient))
            IN \A k \in 1..Len(ticks) :
                  Cardinality({i \in GridLinesDrawn(dom, orient) :
                                  GridPosition(dom[i], orient) =
                                      ScaleApply(GridScale(orient), Num(ticks[k]))}) = 1

(* C20: every grid line drawn by renderXGridLines() or renderYGridLines() *)
(* carries the class grid together with x or y, so that the rule .grid   *)
(* and the selections .x.grid and .y.grid match it.                      *)
GridLinesCarryGridClass ==
    \A orient \in {"x", "y"} :
        \A i \in GridLinesDrawn(dom, orient) : {orient, "grid"} \subseteq dom[i].cls

-----------------------------------------------------------------------------
(* Legend *)

ChildrenOf(t, p) == SelectSeq([k \in 1..Len(t) |-> k],
                              LAMBDA j : j \in Descendants(t, p) /\ t[j].depth = t[p].depth + 1)

(* The legend renderLegend(h, {x, y}) is to leave: one group at the given or *)
(* default place, a row per descriptor at (0, i * h), in each row one rect   *)
(* of the descriptor's colour and one text of its label                      *)
LegendAsCalled(h, x, y) ==
    LET groups == SelectByClasses(dom, 1, {"legend"})
    IN /\ Len(groups) = 1
       /\ dom[groups[1]].depth = 1
       /\ dom[groups[1]].num["tx"] =
              (IF x = Undef THEN targetSize.width - 2 * DefaultMargin ELSE x)
       /\ dom[groups[1]].num["ty"] = (IF y = Undef THEN DefaultMargin ELSE y)
       /\ LET rows == ChildrenOf(dom, groups[1])
          IN /\ Len(rows) = Len(ySeries)
             /\ \A i \in 1..Len(rows) :
                   LET parts == ChildrenOf(dom, rows[i])
                       rects == {p \in 1..Len(parts) : dom[parts[p]].tag = "rect"}
                       texts == {p \in 1..Len(parts) : dom[parts[p]].tag = "text"}
                   IN /\ dom[rows[i]].tag = "g"
                      /\ dom[rows[i]].num["tx"] = 0
                      /\ dom[rows[i]].num["ty"] = (i - 1) * (IF h = Undef THEN 20 ELSE h)
                      /\ Cardinality(rects) = 1
                      /\ Cardinality(texts) = 1
                      /\ \A p \in rects :
                            dom[parts[p]].str["fill"] =
                                (IF ySeries[i].color = Absent THEN "steelblue"
                                 ELSE ySeries[i].color)
                      /\ \A p \in texts : dom[parts[p]].str["text"] = ySeries[i].label

(* C21: after renderLegend(h, {x, y}), called once or again, the render   *)
(* target holds one legend group translated to (x if given else           *)
(* innerWidth, y if given else margin.top), a given 0 honoured, holding    *)
(* |Y| rows, row i at (0, i * h) with h defaulting to 20, each with one    *)
(* swatch of the descriptor's colour (steelblue when none) and one text    *)
(* equal to its label.                                                     *)
LegendRowsPerDescriptor ==
    \A h \in LegendHeights, x \in LegendCoordinates, y \in LegendCoordinates :
        recent["renderLegend"] = LegendArguments(h, x, y) => LegendAsCalled(h, x, y)

(* The legend of two descriptors, one without colour, rendered a second *)
(* time, at x = 0                                                       *)
LegendRepeatedAtZero ==
    /\ decorations = 2
    /\ Len(ySeries) = 2
    /\ recent["renderLegend"] = LegendArguments(12, 0, Undef)
    /\ \E i \in 1..Len(dom) : HasClass(dom[i], "legend") /\ dom[i].num["tx"] = 0
    /\ \E i \in 1..Len(dom) : dom[i].tag = "rect" /\ dom[i].str["fill"] = "steelblue"
    /\ Cardinality({i \in 1..Len(dom) : HasClass(dom[i], "legend-item")}) = 2

-----------------------------------------------------------------------------
(* Points of the scatter charts: radii, icons and sizes of every type *)

PointRadii == {Undefined, NaN, Str(7), Num(6), Num(0)}

PointRecords ==
    { Rec(Num(0), Num(0), Num(4), r) : r \in PointRadii }
        \cup { Rec(Num(4), Num(4), Num(0), Undefined) }

PointSeries ==
    { Serie("y1", "A", "red", 5, Absent, Undef),
      Serie("y2", "A", Absent, Undef, "M0,0L2,2", 2),
      Serie("y2", "B", "blue", 0, "", 0),
      Serie("y1", "C", Absent, Undef, Absent, -3) }

PointSeriesLists ==
    {s \in SeqsUpTo(PointSeries, 1, MaxSeries) :
        \A i, j \in 1..Len(s) : i # j => s[i] # s[j]}

PointArgs ==
    { Args(k, "array", r, "ok", "array", s, [isChartStatic |-> st, transitionTime |-> Undef]) :
        k \in {"Scatter", "CustomScatter"}, r \in SeqsUpTo(PointRecords, 1, MaxRecords),
        s \in PointSeriesLists, st \in BOOLEAN }

InitPoints == InitWith(PointArgs)
NextPoints == Construct \/ RenderSeries \/ TimerFlush
SpecPoints == InitPoints /\ [][NextPoints]_vars

(* The descriptor whose call appended the circles of descriptor j's label *)
FirstLabelled(j) ==
    CHOOSE i \in 1..j : /\ ySeries[i].label = ySeries[j].label
                        /\ \A h \in 1..(i - 1) : ySeries[h].label # ySeries[j].label

(* C22: on a Scatter chart with the series rendered and no transition   *)
(* pending, the circle drawn for a descriptor and a record has the      *)
(* radius of the record's radii field when that is a number other than  *)
(* NaN, otherwise the descriptor's radii, otherwise 4.                  *)
ScatterRadiusResolved ==
    (args.kind = "Scatter" /\ renders >= 1 /\ Pending(dom) = {}) =>
        \A j \in 1..Len(ySeries) :
            LET points == PointsOf(dom, ySeries[j].label)
                serie == ySeries[FirstLabelled(j)]
            IN /\ Len(points) = Len(dataset)
               /\ \A k \in 1..Len(points) :
                     dom[points[k]].num["r"] =
                         (IF dataset[k].radii.t = "num" THEN dataset[k].radii.v
                          ELSE IF serie.radii # Undef THEN serie.radii
                          ELSE 4)

(* Circles at rest whose radii come from each of the three places: a    *)
(* record with a numeric radii, a record whose radii is NaN under a     *)
(* descriptor with radii 5, and a descriptor with no radii              *)
RadiiFromEachSource ==
    /\ args.kind = "Scatter"
    /\ renders >= 1
    /\ Pending(dom) = {}
    /\ Len(dataset) = 2
    /\ dataset[1].radii = Num(6)
    /\ dataset[2].radii = NaN
    /\ Len(ySeries) = 2
    /\ ySeries[1].radii = 5
    /\ ySeries[2].radii = Undef
    /\ ySeries[1].label # ySeries[2].label
    /\ {dom[i].num["r"] : i \in {k \in 1..Len(dom) : HasClass(dom[k], "scatter-point")}}
           = {6, 5, 4}

(* One path per descriptor and record under the descriptor's group, its   *)
(* data the icon when that is a non-empty string, else a circle of the    *)
(* record's numeric radii, else (when told to look there) of the          *)
(* descriptor's radii, else of 4                                          *)
CustomPathsDrawn(descriptorRadii) ==
    LET groups == SelectByClasses(dom, 1, {"series-group"})
    IN /\ Len(groups) = Len(ySeries)
       /\ Cardinality({i \in 1..Len(dom) : dom[i].tag = "path"})
              = Len(ySeries) * Len(dataset)
       /\ \A j \in 1..Len(groups) :
             LET paths == ChildrenOf(dom, groups[j])
             IN /\ Len(paths) = Len(dataset)
                /\ \A k \in 1..Len(paths) :
                      /\ dom[paths[k]].tag = "path"
                      /\ IF ySeries[j].icon # Absent /\ ySeries[j].icon # ""
                         THEN /\ dom[paths[k]].d.kind = "icon"
                              /\ dom[paths[k]].d.icon = ySeries[j].icon
                         ELSE /\ dom[paths[k]].d.kind = "circle"
                              /\ dom[paths[k]].d.radius =
                                   (IF dataset[k].radii.t = "num" THEN dataset[k].radii.v
                                    ELSE IF descriptorRadii /\ ySeries[j].radii # Undef
                                         THEN ySeries[j].radii
                                    ELSE 4)

(* C23: on a CustomScatter chart renderSeries() leaves exactly one path   *)
(* per (descriptor, record) pair, its data the descriptor's icon when     *)
(* that is a non-empty string, otherwise a circle of the record's numeric *)
(* radii, else of the descriptor's radii, else of the default.            *)
CustomPathPerPairScatterRadius ==
    (args.kind = "CustomScatter" /\ renders >= 1) => CustomPathsDrawn(TRUE)

(* C23, amended: the same with the circle's radius the record's numeric *)
(* radii or else 4, whatever radii the descriptor carries.              *)
CustomPathPerPairRecordRadius ==
    (args.kind = "CustomScatter" /\ renders >= 1) => CustomPathsDrawn(FALSE)

(* renderSeries() has run twice for two descriptors of the same label,   *)
(* one with radii 5 and no icon, one with an icon, over a record with a  *)
(* numeric radii and one whose radii is NaN                              *)
CustomPathsOfIconAndCircle ==
    /\ args.kind = "CustomScatter"
    /\ renders = 2
    /\ Len(ySeries) = 2
    /\ ySeries[1].radii = 5
    /\ ySeries[1].icon = Absent
    /\ ySeries[2].icon = "M0,0L2,2"
    /\ ySeries[1].label = ySeries[2].label
    /\ Len(dataset) = 2
    /\ dataset[1].radii = Num(6)
    /\ dataset[2].radii = NaN
    /\ \E i \in 1..Len(dom) : dom[i].tag = "path" /\ dom[i].d.kind = "circle"
                              /\ dom[i].d.radius = 4
    /\ \E i \in 1..Len(dom) : dom[i].tag = "path" /\ dom[i].d.kind = "icon"

(* C24: every path of a CustomScatter chart is translated to            *)
(* (xScale(x), yScale(y)) of its record and then scaled by s, the       *)
(* descriptor's size when that is a number greater than 0 and 1 when    *)
(* it is omitted, zero, negative or not a number.                       *)
CustomPathTranslatedThenScaled ==
    (args.kind = "CustomScatter" /\ renders >= 1) =>
        LET groups == SelectByClasses(dom, 1, {"series-group"})
        IN /\ Len(groups) = Len(ySeries)
           /\ \A j \in 1..Len(groups) :
                 LET paths == ChildrenOf(dom, groups[j])
                 IN /\ Len(paths) = Len(dataset)
                    /\ \A k \in 1..Len(paths) :
                          /\ dom[paths[k]].num["tx"] = ScaleApply(xScale, XOf(dataset[k]))
                          /\ dom[paths[k]].num["ty"] =
                                 ScaleApply(yScale, FieldOf(ySeries[j], dataset[k]))
                          /\ dom[paths[k]].num["scale"] =
                                 (IF ySeries[j].size # Undef /\ ySeries[j].size > 0
                                  THEN ySeries[j].size ELSE 1)

(* Paths drawn for a descriptor of size 2 and for one whose size is 0 or *)
(* negative                                                              *)
PathsOfSizedAndUnsizedDescriptors ==
    /\ args.kind = "CustomScatter"
    /\ renders >= 1
    /\ Len(ySeries) = 2
    /\ ySeries[1].size = 2
    /\ ySeries[2].size # Undef
    /\ ySeries[2].size <= 0
    /\ \E i \in 1..Len(dom) : dom[i].tag = "path" /\ dom[i].num["scale"] = 2
    /\ \E i \in 1..Len(dom) : dom[i].tag = "path" /\ dom[i].num["scale"] = 1
                              /\ dom[i].num["tx"] # Undef

-----------------------------------------------------------------------------
(* Line paths under labels that repeat and contain spaces *)

LineSeriesUniverse ==
    { Serie("y1", "Net sales", "red", Undef, Absent, Undef),
      Serie("y2", "Net sales", Absent, Undef, Absent, Undef),
      Serie("y2", "B", "blue", Undef, Absent, Undef) }

LineArgs ==
    UNION { { Args(k, "array", r, "ok", "array", s, o) :
                r \in SeqsUpTo(RenderRecords(k), 1, MaxRecords),
                s \in {l \in SeqsUpTo(LineSeriesUniverse, 1, MaxSeries) :
                          \A i, j \in 1..Len(l) : i # j => l[i] # l[j]},
                o \in OptionsUniverse } :
            k \in {"Line", "Time"} }

InitLines == InitWith(LineArgs)
NextLines == Construct \/ RenderSeries \/ TimerFlush
SpecLines == InitLines /\ [][NextLines]_vars

SeriePaths(t) == SelectSeq([i \in 1..Len(t) |-> i], LAMBDA i : IsSerie(t[i]))

(* C25: on a Line or Time chart, after one or more renderSeries() calls  *)
(* the render target holds exactly |Y| paths of class serie, the j-th    *)
(* with data-label = label_j, stroke = color_j (steelblue when none)     *)
(* and a path through one coordinate (xScale(x(r)), yScale(y_j(r))) per  *)
(* record r in dataset order, whatever the labels.                       *)
LinePathPerDescriptor ==
    (IsLineKind(args.kind) /\ renders >= 1) =>
        LET paths == SeriePaths(dom)
        IN /\ Len(paths) = Len(ySeries)
           /\ \A j \in 1..Len(paths) :
                 LET n == dom[paths[j]]
                 IN /\ n.tag = "path"
                    /\ n.label = ySeries[j].label
                    /\ n.str["style.stroke"] =
                           (IF ySeries[j].color = Absent THEN "steelblue"
                            ELSE ySeries[j].color)
                    /\ Len(n.d.pts) = Len(dataset)
                    /\ \A k \in 1..Len(dataset) :
                          n.d.pts[k] = <<ScaleApply(xScale, XOf(dataset[k])),
                                         ScaleApply(yScale, FieldOf(ySeries[j], dataset[k]))>>

(* Two descriptors sharing the label "Net sales", one without colour,   *)
(* rendered twice over two records, one of them without an x            *)
LinesOfSharedSpacedLabel ==
    /\ IsLineKind(args.kind)
    /\ renders = 2
    /\ Len(ySeries) = 2
    /\ ySeries[1].label = "Net sales"
    /\ ySeries[2].label = "Net sales"
    /\ Len(dataset) = 2
    /\ dataset[1].x = Null
    /\ Len(SeriePaths(dom)) = 2
    /\ dom[SeriePaths(dom)[2]].str["style.stroke"] = "steelblue"

-----------------------------------------------------------------------------
(* Render methods in any order, on a static chart *)

(* What renderSeries() makes of a target *)
SeriesRendering(t) ==
    CASE IsLineKind(args.kind) -> LineRenderSeries(t)
      [] args.kind = "Scatter" -> ScatterRenderSeries(t)
      [] OTHER -> CustomRenderSeries(t)

(* What a decoration method called with an argument makes of a target *)
Rendering(t, method, argument) ==
    CASE method = "renderXAxis" ->
            Axis(t, xScale, "x", 0, targetSize.height - options.margin, argument)
      [] method = "renderYAxis" -> Axis(t, yScale, "y", options.margin, 0, argument)
      [] method = "renderXGridLines" -> GridLines(t, "x", Ticks(xScale))
      [] method = "renderYGridLines" -> GridLines(t, "y", Ticks(yScale))
      [] method = "renderLegend" ->
            LET a == CHOOSE a \in LegendHeights \X LegendCoordinates \X LegendCoordinates :
                         LegendArguments(a[1], a[2], a[3]) = argument
            IN Legend(t, a[1], a[2], a[3])
      [] method = "renderChartTitle" ->
            SingleText(t, {"chart-title"}, InnerWidth \div 2 + options.margin,
                       options.margin \div 2, Absent, "0.5em", argument)
      [] method = "renderYAxisLabel" ->
            SingleText(t, {"y", "axis-label"}, 0 - options.margin, options.margin,
                       "rotate(-90, margin.left, margin.top)", "1.2em", argument)
      [] OTHER ->
            SingleText(t, {"x", "axis-label"}, InnerWidth \div 2 + options.margin,
                       InnerHeight + options.margin, Absent, "-0.5em", argument)

MethodOrder ==
    <<"renderXAxis", "renderYAxis", "renderXGridLines", "renderYGridLines", "renderLegend",
      "renderChartTitle", "renderXAxisLabel", "renderYAxisLabel">>

(* The methods called so far, called on t in the order of MethodOrder, from *)
(* the i-th on                                                              *)
RECURSIVE InMethodOrder(_, _)
InMethodOrder(t, i) ==
    IF i > Len(MethodOrder) THEN t
    ELSE InMethodOrder(IF recent[MethodOrder[i]] = NeverCalled THEN t
                       ELSE Rendering(t, MethodOrder[i], recent[MethodOrder[i]]),
                       i + 1)

(* The render target as the constructor leaves a fresh one *)
FreshTarget == <<[EmptyTarget[1] EXCEPT !.cls = {ChartClass(args.kind)}]>>

(* The same calls made on a fresh target, renderSeries() first *)
CalledInMethodOrder ==
    InMethodOrder(IF renders = 0 THEN FreshTarget ELSE SeriesRendering(FreshTarget), 1)

(* The target once the pending transitions have had their frame *)
Settled(t) == [i \in 1..Len(t) |-> NodeFrame(t[i], TRUE)]

(* The children of the render target, each with all it holds *)
TopLevel(t) ==
    { SubSeq(t, i, SubtreeEnd(t, i)) : i \in {j \in 2..Len(t) : t[j].depth = 1} }

(* The elements of a target by kind, classes, attributes and group, the   *)
(* order of the target's children aside; no two children are alike, so    *)
(* the set holds each as often as the target does                         *)
Elements(t) ==
    [target |-> t[1], children |-> TopLevel(t),
     count |-> Cardinality({j \in 2..Len(t) : t[j].depth = 1})]

(* The method that drew a child of the render target *)
DrawnBy(child) ==
    LET c == child[1].cls
    IN CASE c = {"series"} -> "renderSeries"
         [] c = {"x", "axis"} -> "renderXAxis"
         [] c = {"y", "axis"} -> "renderYAxis"
         [] c = {"x.grid"} -> "renderXGridLines"
         [] c = {"y.grid"} -> "renderYGridLines"
         [] c = {"legend"} -> "renderLegend"
         [] c = {"chart-title"} -> "renderChartTitle"
         [] c = {"x", "axis-label"} -> "renderXAxisLabel"
         [] c = {"y", "axis-label"} -> "renderYAxisLabel"
         [] OTHER -> "caller"

(* A step of a render method keeps every element another method drew *)
KeepsWhatOthersDrew ==
    \A child \in TopLevel(dom) : DrawnBy(child) # last'.op => child \in TopLevel(dom')

OrderArgs ==
    { Args(k, "array", DecoRecords, "ok", "array", s,
           [isChartStatic |-> TRUE, transitionTime |-> Undef]) :
        k \in {"Line", "Scatter", "CustomScatter"},
        s \in {s \in ScaleSeriesLists : Len(s) = 2} }

InitOrder == InitWith(OrderArgs)

(* Every render method called at most once, in any order *)
NextOrder ==
    \/ Construct
    \/ (renders = 0 /\ RenderSeries)
    \/ RenderCursor
    \/ TimerFlush
    \/ (recent["renderXAxis"] = NeverCalled /\ RenderXAxis)
    \/ (recent["renderYAxis"] = NeverCalled /\ RenderYAxis)
    \/ (recent["renderXGridLines"] = NeverCalled /\ RenderXGridLines)
    \/ (recent["renderYGridLines"] = NeverCalled /\ RenderYGridLines)
    \/ (recent["renderLegend"] = NeverCalled /\ RenderLegendAt)
    \/ (recent["renderChartTitle"] = NeverCalled /\ RenderChartTitle)
    \/ (recent["renderXAxisLabel"] = NeverCalled /\ RenderXAxisLabel)
    \/ (recent["renderYAxisLabel"] = NeverCalled /\ RenderYAxisLabel)

SpecOrder == InitOrder /\ [][NextOrder]_vars

(* C26: on a static chart, whatever order the render methods were called *)
(* in on a fresh render target, the target holds the elements (kind,     *)
(* classes, attributes, group) that the same calls give in one fixed     *)
(* order, sibling order aside, and a render method's step keeps every    *)
(* element another render method drew.                                   *)
RenderOrderImmaterial ==
    /\ [](phase = "constructed" =>
             /\ Elements(Settled(dom)) = Elements(Settled(CalledInMethodOrder))
             /\ Cardinality(TopLevel(dom)) = Elements(dom).count)
    /\ [][(last'.op \in DecorationMethods \cup {"renderSeries", "renderCursor"})
             => KeepsWhatOthersDrew]_vars

(* renderSeries() was called after a legend and a y axis: the children of *)
(* the target are in another order than the fixed one                     *)
RenderedOutOfMethodOrder ==
    /\ phase = "constructed"
    /\ renders = 1
    /\ last.op = "renderSeries"
    /\ recent["renderLegend"] # NeverCalled
    /\ recent["renderYAxis"] # NeverCalled
    /\ Settled(dom) # Settled(CalledInMethodOrder)

-----------------------------------------------------------------------------
(* Pointer events and the handler *)

(* C27: on a non-static Line or Time chart renderCursor(), called for the *)
(* first time or again, leaves exactly one pointer-move handler attached, *)
(* and each pointer move on the render target is handled on arrival by    *)
(* that one handler: one scan for the nearest record and one redraw of    *)
(* the cursor, before anything else happens.                              *)
OneHandlerPerPointerMove ==
    /\ [](listeners <= 1)
    /\ [][(last'.op = "renderCursor" /\ ~options.isChartStatic) => listeners' = 1]_vars
    /\ [][(last'.op \in {"handleCursor", "mousemove"} /\ listeners >= 1) =>
             /\ listeners = 1
             /\ last'.op = "handleCursor"
             /\ dom' = HandleCursor(dom, last'.mx, last'.my)
             /\ last'.sel = (IF WithinBounds(last'.mx, last'.my)
                             THEN ClosestDatum(1, 1, last'.mx) ELSE 0)
             /\ handled' = last'.sel]_vars

(* renderCursor() has returned again after a pointer move was handled *)
RenderCursorCalledAgain ==
    /\ ~options.isChartStatic
    /\ last.op = "renderCursor"
    /\ handled # 0
    /\ listeners = 1
    /\ CursorElements(dom) # {}

-----------------------------------------------------------------------------
(* Transitions of the scatter points *)

DistinctLabels == \A i, j \in 1..Len(ySeries) : i # j => ySeries[i].label # ySeries[j].label

-----------------------------------------------------------------------------
(* The render target through construction *)

TargetSizes == {SvgSize, [width |-> 300, height |-> 240]}

InitTargets == InitOf(CtorArgs, TargetSizes, {EmptyTarget, DecoratedTarget})
SpecTargets == InitTargets /\ [][NextCtor]_vars

(* The defined x values do not give a scale: there is none, the first is  *)
(* neither a Date nor a number, or a Date is followed by another type     *)
XTypeMismatch ==
    \/ DefinedX = <<>>
    \/ DefinedX[1].t \notin {"date", "num"}
    \/ DefinedX[1].t = "date" /\ \E i \in 1..Len(DefinedX) : DefinedX[i].t # "date"

(* C29: a construction that throws, on a validation failure or an x type *)
(* mismatch, leaves the render target as it was: no child added, no      *)
(* attribute (class included) changed, no listener attached; the target  *)
(* is changed only once the validation and both scales have succeeded.   *)
ThrowLeavesTargetUnmodified ==
    /\ [][(phase = "new" /\ phase' # "new" /\ (InvalidArguments \/ XTypeMismatch)) =>
             /\ phase' = "thrown"
             /\ dom' = dom
             /\ listeners' = listeners]_vars
    /\ [][dom' # dom =>
             /\ ~InvalidArguments /\ ~XTypeMismatch
             /\ phase' = "constructed"
             /\ xScale' # NoScale /\ yScale' # NoScale
             /\ trace'[Len(trace')] = "class"
             /\ \A k \in 1..(Len(trace') - 1) : trace'[k] # "class"]_vars

(* A construction over a Date followed by a number has thrown on a target *)
(* that holds the caller's elements                                       *)
ThrownOnDecoratedTarget ==
    /\ phase = "thrown"
    /\ ~InvalidArguments
    /\ Len(DefinedX) = 2
    /\ DefinedX[1].t = "date"
    /\ DefinedX[2].t = "num"
    /\ dom = DecoratedTarget
    /\ listeners = 0

(* C30: a construction that succeeds changes one thing on the render     *)
(* target: its class attribute becomes the chart kind (line-chart for    *)
(* Line and Time, scatter-chart, custom-scatter-chart) in place of the   *)
(* class it had; no child is added, no listener attached, no size set.   *)
ConstructionSetsClassOnly ==
    [][(phase = "new" /\ phase' = "constructed") =>
          /\ dom' = [dom EXCEPT ![1].cls =
                        {IF args.kind \in {"Line", "Time"} THEN "line-chart"
                         ELSE IF args.kind = "Scatter" THEN "scatter-chart"
                         ELSE "custom-scatter-chart"}]
          /\ listeners' = listeners
          /\ targetSize' = targetSize]_vars

(* A CustomScatter chart constructed on a target that had the class      *)
(* "caller" and the caller's elements                                    *)
ConstructedOnDecoratedTarget ==
    /\ phase = "constructed"
    /\ args.kind = "CustomScatter"
    /\ dom[1].cls = {"custom-scatter-chart"}
    /\ Len(dom) = Len(DecoratedTarget)
    /\ UnrelatedChildrenUntouched
    /\ listeners = 0

=============================================================================
